---------------------------- MODULE Spec2Model ----------------------------
(***************************************************************************)
(* Verification model of the multiplayer maze game server.                 *)
(*                                                                         *)
(* The repository holds two server engines:                                *)
(*   - the room engine   (game/GameManager.ts + game/GameRoom.ts), with    *)
(*     continuous player coordinates, a ready gate and a tick loop;        *)
(*   - the session engine (controllers/SocketHandler.ts +                  *)
(*     services/GameManager.ts), with grid-cell coordinates, lives,        *)
(*     obstacles and abilities.                                            *)
(* Each engine is a state machine of its own: RoomSpec and SessionSpec.    *)
(*                                                                         *)
(* Continuous coordinates of the room engine are kept as integers in       *)
(* units of 1/Scale of a cell, so Math.floor is \div Scale and the         *)
(* collision radius 0.5 is Scale/2.                                        *)
(***************************************************************************)
EXTENDS Integers, Sequences, FiniteSets, TLC

(***************************************************************************)
(* Bounds of the model.                                                    *)
(***************************************************************************)
NumPlayers == 2
MaxRooms == 2
Scale == 4
\* generateCheckpoints places one checkpoint per 100 cells; the mazes explored
\* are small, so the model places one per CheckpointArea cells.
CheckpointArea == 20

(***************************************************************************)
(* Defaults of the room engine's process.env settings.                     *)
(***************************************************************************)
DefaultMazeWidth == "31"
DefaultMazeHeight == "31"
DefaultMaxPlayers == "8"
DefaultMinPlayers == "2"
DefaultRoomLives == 3

NULL == "null"
WAITING == "waiting"
IN_PROGRESS == "in_progress"
FINISHED == "finished"

SocketIds == {ToString(i) : i \in 1..NumPlayers}
RoomIdOf(i) == "room-" \o ToString(i)
AllRoomIds == {RoomIdOf(i) : i \in 1..MaxRooms}

VARIABLES
    env,            \* process.env: MAZE_WIDTH, MAZE_HEIGHT, MAX_PLAYERS_PER_GAME,
                    \* MIN_PLAYERS_PER_GAME (NULL when unset)
    roomCap,        \* how many rooms a run of the model may create
    gameRooms,      \* GameManager.gameRooms: rooms in Map insertion order
    playerRooms,    \* GameManager.playerRooms: socket id -> room id or NULL
    nextRoomId,     \* number of room ids handed out so far (uuidv4 is fresh)
    emitted,        \* events emitted by the last handler, in order
    tickCount,      \* parity of the number of ticks of the game loop
    lastEvent,      \* the inbound event (name, socket id) handled last
    movedRooms      \* ids of the registered rooms in which a player-move has
                    \* changed a player's position since the last tick

roomVars == <<env, roomCap, gameRooms, playerRooms, nextRoomId, emitted, tickCount,
              lastEvent, movedRooms>>

VARIABLES
    db,                 \* the abilities tables of the database
    sessionCap,         \* how many sessions a run of the model may create
    clients,            \* the sockets that connect in this run and the settings,
                        \* moves and abilities they send
    randomStream,       \* the values Math.random() returns in this run
    connectedUsers,     \* SocketHandler.connectedUsers: socket id -> user or NULL
    activeSessions,     \* GameManager.activeSessions: sessions in Map insertion order
    playerSessions,     \* GameManager.playerSessions: user id -> session id or NULL
    pendingJoins,       \* joinSession calls suspended at one of their awaits
    now,                \* Date.now(), in units of the clock of the model
    sent,               \* events emitted by the last handler, in order
    lastSocketEvent     \* the inbound event (name, socket id) handled last

sessionVars == <<db, sessionCap, clients, randomStream, connectedUsers, activeSessions, playerSessions, pendingJoins, now,
                 sent, lastSocketEvent>>

\* The state of runs of the two MazeGenerators on their own.
VARIABLES
    carving,            \* room engine: size, grid and call stack of a generate()
                        \* in progress
    generating,         \* session engine: the arguments and the random source of
                        \* MazeGenerator.generate and the calls made with them
    carveLoop           \* session engine: the locals of the carving loop of
                        \* MazeGenerator.generate, iteration by iteration
mazeVars == <<carving, generating, carveLoop>>

vars == <<roomVars, sessionVars, mazeVars>>

\* No maze is being generated on its own.
CarvingIdle == carving = [width |-> 0, height |-> 0, maze |-> <<>>, stack |-> <<>>,
                          returned |-> FALSE]

GenerateIdle == generating = [size |-> 0, difficulty |-> 0, stream |-> <<>>,
                              runs |-> <<>>]

LoopIdle == carveLoop = [size |-> 0, maze |-> <<>>, visited |-> {}, stack |-> <<>>,
                         currentX |-> 0, currentY |-> 0, done |-> FALSE]

MazeIdle == CarvingIdle /\ GenerateIdle /\ LoopIdle

\* The session engine is a different server: the room engine never touches it.
SessionIdle ==
    /\ db = [starters |-> <<>>, slowInsert |-> FALSE]
    /\ sessionCap = 0
    /\ clients = [sockets |-> {}]
    /\ randomStream = <<0>>
    /\ connectedUsers = <<>>
    /\ activeSessions = <<>>
    /\ playerSessions = <<>>
    /\ pendingJoins = {}
    /\ now = 0
    /\ sent = <<>>
    /\ lastSocketEvent = <<"", NULL>>

RoomIdle ==
    /\ env = [MAZE_WIDTH |-> NULL, MAZE_HEIGHT |-> NULL,
              MAX_PLAYERS_PER_GAME |-> NULL, MIN_PLAYERS_PER_GAME |-> NULL]
    /\ roomCap = 0
    /\ gameRooms = <<>>
    /\ playerRooms = <<>>
    /\ nextRoomId = 0
    /\ emitted = <<>>
    /\ tickCount = 0
    /\ lastEvent = <<"", NULL>>
    /\ movedRooms = {}

(***************************************************************************)
(* The deployments explored: a 5 x 3 maze (a corridor, no checkpoint) with *)
(* up to MaxRooms rooms, a 5 x 5 maze (one checkpoint) for the lifetime of *)
(* one room, and the corridor with rooms for one player each.              *)
(***************************************************************************)
RoomScenarios ==
    { [env |-> [MAZE_WIDTH |-> "5", MAZE_HEIGHT |-> "3",
                MAX_PLAYERS_PER_GAME |-> "2", MIN_PLAYERS_PER_GAME |-> NULL],
       roomCap |-> MaxRooms],
      [env |-> [MAZE_WIDTH |-> "5", MAZE_HEIGHT |-> "5",
                MAX_PLAYERS_PER_GAME |-> "2", MIN_PLAYERS_PER_GAME |-> NULL],
       roomCap |-> 1],
      [env |-> [MAZE_WIDTH |-> "5", MAZE_HEIGHT |-> "3",
                MAX_PLAYERS_PER_GAME |-> "1", MIN_PLAYERS_PER_GAME |-> "1"],
       roomCap |-> MaxRooms] }

\* parseInt on the decimal strings that occur as settings
parseInt(str) == CHOOSE n \in 0..99 : ToString(n) = str

\* parseInt(process.env.X || default)
EnvInt(value, default) == parseInt(IF value = NULL THEN default ELSE value)

(***************************************************************************)
(* Helpers on Map-like sequences.                                          *)
(***************************************************************************)
RemoveAt(s, i) == SubSeq(s, 1, i - 1) \o SubSeq(s, i + 1, Len(s))

IndexOfId(s, id) ==
    IF \E i \in DOMAIN s : s[i].id = id
    THEN CHOOSE i \in DOMAIN s : s[i].id = id
    ELSE 0

HasId(s, id) == IndexOfId(s, id) # 0

\* Map.set: an existing key keeps its place, a new key goes last.
MapSet(s, rec) ==
    IF HasId(s, rec.id)
    THEN [s EXCEPT ![IndexOfId(s, rec.id)] = rec]
    ELSE Append(s, rec)

\* Map.delete
MapDelete(s, id) ==
    IF HasId(s, id) THEN RemoveAt(s, IndexOfId(s, id)) ELSE s

Ev(to, name, data) == [to |-> to, name |-> name, data |-> data]

(***************************************************************************)
(* MazeGenerator of the room engine (0 = wall, 1 = empty).                 *)
(***************************************************************************)
Directions == << <<0, -2>>, <<2, 0>>, <<0, 2>>, <<-2, 0>> >>

\* The draws j of the Fisher-Yates shuffle explored, for i = 3, 2, 1.
ShuffleDraws == { <<3, 2, 1>>, <<0, 0, 0>>, <<1, 2, 0>> }

Swap(a, i, j) == [a EXCEPT ![i] = a[j], ![j] = a[i]]

\* shuffle(array) with the draws given; indices are 1-based here.
shuffle(array, draws) ==
    Swap(Swap(Swap(array, 4, draws[1] + 1), 3, draws[2] + 1), 2, draws[3] + 1)

isValid(x, y, width, height) ==
    x > 0 /\ x < width - 1 /\ y > 0 /\ y < height - 1

AllWalls(width, height) ==
    [y \in 0..(height - 1) |-> [x \in 0..(width - 1) |-> 0]]

\* recursiveBacktrack(x, y): k = 0 marks the cell and shuffles, k = 1..4 is
\* the k-th pass of the loop over the shuffled directions.
RECURSIVE recursiveBacktrack(_, _, _, _, _, _, _, _)
recursiveBacktrack(maze, x, y, width, height, draws, dirs, k) ==
    IF k = 0
    THEN recursiveBacktrack([maze EXCEPT ![y][x] = 1], x, y, width, height, draws,
                            shuffle(Directions, draws), 1)
    ELSE IF k > 4
    THEN maze
    ELSE LET nx == x + dirs[k][1]
             ny == y + dirs[k][2]
         IN IF isValid(nx, ny, width, height) /\ maze[ny][nx] = 0
            THEN recursiveBacktrack(
                     recursiveBacktrack(
                         [maze EXCEPT ![y + dirs[k][2] \div 2][x + dirs[k][1] \div 2] = 1],
                         nx, ny, width, height, draws, dirs, 0),
                     x, y, width, height, draws, dirs, k + 1)
            ELSE recursiveBacktrack(maze, x, y, width, height, draws, dirs, k + 1)

generate(width, height, draws) ==
    recursiveBacktrack(AllWalls(width, height), 1, 1, width, height, draws,
                       Directions, 0)

(***************************************************************************)
(* GameRoom (room engine).                                                 *)
(***************************************************************************)
\* Outcomes of Math.floor(Math.random() * (mazeWidth - 2)) + 1 explored
\* for a checkpoint's x; every y in 1..mazeHeight-2 is explored.
CheckpointDrawXs(width) == {1, width - 2}

CheckpointDraws(width, height) ==
    {[x |-> cx, y |-> cy] : cx \in CheckpointDrawXs(width), cy \in 1..(height - 2)}

\* The do-while of generateCheckpoints: a draw is kept unless it is a wall,
\* the start, the end or an existing checkpoint.
RECURSIVE generateCheckpoints(_, _, _, _, _, _)
generateCheckpoints(maze, width, height, startPosition, endPosition, cps) ==
    IF Len(cps) >= (width * height) \div CheckpointArea
    THEN {cps}
    ELSE UNION {
        generateCheckpoints(maze, width, height, startPosition, endPosition,
            Append(cps, [id |-> "cp-" \o ToString(Len(cps) + 1),
                         x |-> c.x, y |-> c.y, reached |-> FALSE])) :
        c \in {d \in CheckpointDraws(width, height) :
                  ~ \/ maze[d.y][d.x] = 0
                    \/ (d.x = startPosition.x /\ d.y = startPosition.y)
                    \/ (d.x = endPosition.x /\ d.y = endPosition.y)
                    \/ \E i \in DOMAIN cps : cps[i].x = d.x /\ cps[i].y = d.y} }

\* new GameRoom(id, maxPlayers): every room the constructor can build.
GameRoom(id, maxPlayers) ==
    LET mazeWidth == EnvInt(env.MAZE_WIDTH, DefaultMazeWidth)
        mazeHeight == EnvInt(env.MAZE_HEIGHT, DefaultMazeHeight)
        startPosition == [x |-> 1, y |-> 1]
        endPosition == [x |-> mazeWidth - 2, y |-> mazeHeight - 2]
        Built(maze) ==
            { [id |-> id,
               players |-> <<>>,
               maze |-> maze,
               checkpoints |-> cps,
               gameState |-> WAITING,
               maxPlayers |-> maxPlayers,
               startPosition |-> startPosition,
               endPosition |-> endPosition,
               readyPlayers |-> {},
               mazeWidth |-> mazeWidth,
               mazeHeight |-> mazeHeight] :
              cps \in generateCheckpoints(maze, mazeWidth, mazeHeight,
                                          startPosition, endPosition, <<>>) }
    IN UNION { Built(generate(mazeWidth, mazeHeight, draws)) : draws \in ShuffleDraws }

addPlayer(room, player) == [room EXCEPT !.players = MapSet(@, player)]

removePlayer(room, playerId) ==
    [room EXCEPT !.players = MapDelete(@, playerId),
                 !.readyPlayers = @ \ {playerId}]

\* A position check that looks at the bounds of the maze only.
isValidPosition_BoundsOnly(room, x, y) ==
    /\ x \div Scale >= 0 /\ x \div Scale < room.mazeWidth
    /\ y \div Scale >= 0 /\ y \div Scale < room.mazeHeight

isValidPosition(room, x, y) ==
    LET cellX == x \div Scale
        cellY == y \div Scale
    IN IF cellX < 0 \/ cellX >= room.mazeWidth \/ cellY < 0 \/ cellY >= room.mazeHeight
       THEN FALSE
       ELSE room.maze[cellY][cellX] = 1

\* Math.sqrt(dx^2 + dy^2) < 0.5 for a point (x, y) in 1/Scale units and a
\* cell (cx, cy): 4 * (dx^2 + dy^2) < Scale^2.
WithinCollisionDistance(x, y, cx, cy) ==
    4 * ((x - cx * Scale) * (x - cx * Scale) + (y - cy * Scale) * (y - cy * Scale))
        < Scale * Scale

checkCheckpointCollision(room, playerId) ==
    LET player == room.players[IndexOfId(room.players, playerId)]
        hit == {i \in DOMAIN room.checkpoints :
                   /\ ~room.checkpoints[i].reached
                   /\ WithinCollisionDistance(player.x, player.y,
                          room.checkpoints[i].x, room.checkpoints[i].y)}
    IN [room EXCEPT
          !.checkpoints = [i \in DOMAIN @ |->
                              IF i \in hit THEN [@[i] EXCEPT !.reached = TRUE] ELSE @[i]],
          !.players[IndexOfId(room.players, playerId)].checkpointsPassed =
              @ + Cardinality(hit)]

checkEndCollision(room, playerId) ==
    LET player == room.players[IndexOfId(room.players, playerId)]
    IN IF WithinCollisionDistance(player.x, player.y,
                                  room.endPosition.x, room.endPosition.y)
       THEN [room EXCEPT !.gameState = FINISHED]
       ELSE room

updatePlayerPosition(room, playerId, x, y, angle) ==
    IF ~HasId(room.players, playerId)
           \/ ~room.players[IndexOfId(room.players, playerId)].isAlive
    THEN room
    ELSE IF isValidPosition(room, x, y)
         THEN LET i == IndexOfId(room.players, playerId)
                  moved == [room EXCEPT !.players[i].x = x,
                                        !.players[i].y = y,
                                        !.players[i].angle = angle]
              IN checkEndCollision(checkCheckpointCollision(moved, playerId), playerId)
         ELSE room

setPlayerReady(room, playerId) ==
    [room EXCEPT !.readyPlayers = @ \cup {playerId}]

\* A start gate that counts the players only.
canStartGame_CountOnly(room) ==
    Len(room.players) >= EnvInt(env.MIN_PLAYERS_PER_GAME, DefaultMinPlayers)

canStartGame(room) ==
    /\ Len(room.players) >= EnvInt(env.MIN_PLAYERS_PER_GAME, DefaultMinPlayers)
    /\ Cardinality(room.readyPlayers) = Len(room.players)

startGame(room) == [room EXCEPT !.gameState = IN_PROGRESS]

checkGameCompletion(room) == room.gameState = FINISHED

getWinnerId(room) ==
    LET near == {i \in DOMAIN room.players :
                    WithinCollisionDistance(room.players[i].x, room.players[i].y,
                                            room.endPosition.x, room.endPosition.y)}
    IN IF near = {}
       THEN NULL
       ELSE room.players[CHOOSE i \in near : \A j \in near : i <= j].id


(***************************************************************************)
(* GameManager (room engine): the socket handlers and the game loop.       *)
(***************************************************************************)
RoomOf(rooms, roomId) == rooms[IndexOfId(rooms, roomId)]

\* A room search that does not look at the game state.
findAvailableRoom_AnyState(rooms) ==
    LET open == {i \in DOMAIN rooms : Len(rooms[i].players) < rooms[i].maxPlayers}
    IN IF open = {}
       THEN NULL
       ELSE rooms[CHOOSE i \in open : \A j \in open : i <= j].id

findAvailableRoom(rooms) ==
    LET open == {i \in DOMAIN rooms :
                    /\ Len(rooms[i].players) < rooms[i].maxPlayers
                    /\ rooms[i].gameState = WAITING}
    IN IF open = {}
       THEN NULL
       ELSE rooms[CHOOSE i \in open : \A j \in open : i <= j].id

NewPlayer(socketId, room) ==
    [id |-> socketId,
     x |-> room.startPosition.x * Scale,
     y |-> room.startPosition.y * Scale,
     angle |-> 0,
     lives |-> DefaultRoomLives,
     checkpointsPassed |-> 0,
     isAlive |-> TRUE]

GameStateEvent(room) ==
    Ev(room.id, "game-state",
       [id |-> room.id, gameState |-> room.gameState, maxPlayers |-> room.maxPlayers])

\* A join that does not look at the size of the room.
JoinResolved_NoCapacity(socketId, rooms, roomId, roomsCreated) ==
    LET room == RoomOf(rooms, roomId)
        joined == addPlayer(room, NewPlayer(socketId, room))
    IN /\ gameRooms' = MapSet(rooms, joined)
       /\ nextRoomId' = roomsCreated
       /\ playerRooms' = [playerRooms EXCEPT ![socketId] = roomId]
       /\ emitted' = << Ev(socketId, "game-joined", roomId),
                        Ev(socketId, "maze-data", roomId),
                        GameStateEvent(joined) >>

\* handleJoinGame once the room is resolved; rooms holds a room just created.
JoinResolved(socketId, rooms, roomId, roomsCreated) ==
    LET room == RoomOf(rooms, roomId)
    IN IF Len(room.players) >= room.maxPlayers
       THEN /\ gameRooms' = rooms
            /\ nextRoomId' = roomsCreated
            /\ emitted' = << Ev(socketId, "error", "Room is full") >>
            /\ UNCHANGED playerRooms
       ELSE LET joined == addPlayer(room, NewPlayer(socketId, room))
            IN /\ gameRooms' = MapSet(rooms, joined)
               /\ nextRoomId' = roomsCreated
               /\ playerRooms' = [playerRooms EXCEPT ![socketId] = roomId]
               /\ emitted' = << Ev(socketId, "game-joined", roomId),
                                Ev(socketId, "maze-data", roomId),
                                GameStateEvent(joined) >>

handleJoinGame(socketId, roomId) ==
    /\ UNCHANGED <<env, roomCap, tickCount, sessionVars, mazeVars>>
    /\ lastEvent' = <<"join-game", socketId>>
    /\ LET found == IF roomId # NULL /\ HasId(gameRooms, roomId)
                    THEN roomId
                    ELSE findAvailableRoom(gameRooms)
       IN IF found # NULL
          THEN JoinResolved(socketId, gameRooms, found, nextRoomId)
          ELSE \* createNewRoom
               /\ nextRoomId < roomCap
               /\ \E room \in GameRoom(RoomIdOf(nextRoomId + 1),
                                       EnvInt(env.MAX_PLAYERS_PER_GAME, DefaultMaxPlayers)) :
                      JoinResolved(socketId, Append(gameRooms, room), room.id,
                                   nextRoomId + 1)

\* The targets explored for player-move, taken from the maze data the client
\* was sent: a point within the collision distance of the end cell and of
\* each checkpoint, a point half a cell before each checkpoint, a wall cell
\* and two points outside the maze.
MoveTargets(socketId) ==
    IF playerRooms[socketId] = NULL \/ ~HasId(gameRooms, playerRooms[socketId])
    THEN { <<Scale, Scale>> }
    ELSE LET room == RoomOf(gameRooms, playerRooms[socketId])
             Near(c) == <<c.x * Scale + 1, c.y * Scale + 1>>
             Edge(c) == <<c.x * Scale - Scale \div 2, c.y * Scale>>
         IN { Near(room.endPosition),
              <<0, Scale>>, <<-1, Scale>>, <<Scale, room.mazeHeight * Scale>> }
            \cup { Near(room.checkpoints[i]) : i \in DOMAIN room.checkpoints }
            \cup { Edge(room.checkpoints[i]) : i \in DOMAIN room.checkpoints }

MoveAngles == {1}

\* A player-move handler that does not look at the game state.
handlePlayerMove_AnyState(playerId, x, y, angle) ==
    /\ UNCHANGED <<env, roomCap, playerRooms, nextRoomId, tickCount, sessionVars, mazeVars>>
    /\ lastEvent' = <<"player-move", playerId>>
    /\ emitted' = <<>>
    /\ LET roomId == playerRooms[playerId]
       IN IF roomId = NULL \/ ~HasId(gameRooms, roomId)
          THEN UNCHANGED gameRooms
          ELSE gameRooms' = MapSet(gameRooms,
                   updatePlayerPosition(RoomOf(gameRooms, roomId), playerId,
                                        x, y, angle))

handlePlayerMove(playerId, x, y, angle) ==
    /\ UNCHANGED <<env, roomCap, playerRooms, nextRoomId, tickCount, sessionVars, mazeVars>>
    /\ lastEvent' = <<"player-move", playerId>>
    /\ emitted' = <<>>
    /\ LET roomId == playerRooms[playerId]
       IN IF roomId = NULL
          THEN UNCHANGED gameRooms
          ELSE IF ~HasId(gameRooms, roomId)
                      \/ RoomOf(gameRooms, roomId).gameState # IN_PROGRESS
               THEN UNCHANGED gameRooms
               ELSE gameRooms' = MapSet(gameRooms,
                        updatePlayerPosition(RoomOf(gameRooms, roomId), playerId,
                                             x, y, angle))

handlePlayerReady(playerId) ==
    /\ UNCHANGED <<env, roomCap, playerRooms, nextRoomId, tickCount, sessionVars, mazeVars>>
    /\ lastEvent' = <<"player-ready", playerId>>
    /\ LET roomId == playerRooms[playerId]
       IN IF roomId = NULL \/ ~HasId(gameRooms, roomId)
          THEN UNCHANGED gameRooms /\ emitted' = <<>>
          ELSE LET room == setPlayerReady(RoomOf(gameRooms, roomId), playerId)
               IN IF canStartGame(room)
                  THEN /\ gameRooms' = MapSet(gameRooms, startGame(room))
                       /\ emitted' = << Ev(roomId, "game-started", roomId) >>
                  ELSE /\ gameRooms' = MapSet(gameRooms, room)
                       /\ emitted' = <<>>

\* A leave handler that forgets to delete the playerRooms entry.
handleLeaveGame_KeepsDirectory(playerId) ==
    LET roomId == playerRooms[playerId]
    IN IF roomId = NULL \/ ~HasId(gameRooms, roomId)
       THEN UNCHANGED <<gameRooms, playerRooms>> /\ emitted' = <<>>
       ELSE LET room == removePlayer(RoomOf(gameRooms, roomId), playerId)
            IN /\ UNCHANGED playerRooms
               /\ IF Len(room.players) = 0
                  THEN /\ gameRooms' = MapDelete(gameRooms, roomId)
                       /\ emitted' = <<>>
                  ELSE /\ gameRooms' = MapSet(gameRooms, room)
                       /\ emitted' = << GameStateEvent(room) >>

\* handleLeaveGame, the handler of leave-game and of disconnect.
handleLeaveGame(playerId) ==
    LET roomId == playerRooms[playerId]
    IN IF roomId = NULL \/ ~HasId(gameRooms, roomId)
       THEN UNCHANGED <<gameRooms, playerRooms>> /\ emitted' = <<>>
       ELSE LET room == removePlayer(RoomOf(gameRooms, roomId), playerId)
            IN /\ playerRooms' = [playerRooms EXCEPT ![playerId] = NULL]
               /\ IF Len(room.players) = 0
                  THEN /\ gameRooms' = MapDelete(gameRooms, roomId)
                       /\ emitted' = <<>>
                  ELSE /\ gameRooms' = MapSet(gameRooms, room)
                       /\ emitted' = << GameStateEvent(room) >>

LeaveGame(playerId) ==
    /\ UNCHANGED <<env, roomCap, nextRoomId, tickCount, sessionVars, mazeVars>>
    /\ lastEvent' = <<"leave-game", playerId>>
    /\ handleLeaveGame(playerId)

Disconnect(playerId) ==
    /\ UNCHANGED <<env, roomCap, nextRoomId, tickCount, sessionVars, mazeVars>>
    /\ lastEvent' = <<"disconnect", playerId>>
    /\ handleLeaveGame(playerId)

\* One pass of the setInterval callback over gameRooms.values().
RECURSIVE TickEvents(_, _)
TickEvents(rooms, i) ==
    IF i > Len(rooms)
    THEN <<>>
    ELSE LET room == rooms[i]
         IN (IF room.gameState = IN_PROGRESS
             THEN << Ev(room.id, "player-update", room.players) >>
                  \o (IF checkGameCompletion(room)
                      THEN << Ev(room.id, "game-finished",
                                 IF getWinnerId(room) = NULL THEN "" ELSE getWinnerId(room)) >>
                      ELSE <<>>)
             ELSE <<>>)
            \o TickEvents(rooms, i + 1)

Tick ==
    /\ emitted' = TickEvents(gameRooms, 1)
    /\ tickCount' = 1 - tickCount
    /\ lastEvent' = <<"tick", NULL>>
    /\ UNCHANGED <<env, roomCap, gameRooms, playerRooms, nextRoomId, sessionVars, mazeVars>>

RoomInit ==
    /\ \E sc \in RoomScenarios : env = sc.env /\ roomCap = sc.roomCap
    /\ gameRooms = <<>>
    /\ playerRooms = [p \in SocketIds |-> NULL]
    /\ nextRoomId = 0
    /\ emitted = <<>>
    /\ tickCount = 0
    /\ lastEvent = <<"", NULL>>
    /\ movedRooms = {}
    /\ SessionIdle
    /\ MazeIdle

\* movedRooms after a step of the room engine: a tick empties it, a
\* player-move adds the room of the player when the handler gave the player
\* a position other than the one held before, and a room that is deleted
\* drops out.
MovesObserved ==
    IF lastEvent'[1] = "tick"
    THEN {}
    ELSE LET playerId == lastEvent'[2]
             roomId == playerRooms[playerId]
             kept == {r \in movedRooms : HasId(gameRooms', r)}
         IN IF lastEvent'[1] = "player-move" /\ roomId # NULL /\ HasId(gameRooms, roomId)
                   /\ HasId(RoomOf(gameRooms, roomId).players, playerId)
            THEN LET old == RoomOf(gameRooms, roomId).players[
                                IndexOfId(RoomOf(gameRooms, roomId).players, playerId)]
                     new == RoomOf(gameRooms', roomId).players[
                                IndexOfId(RoomOf(gameRooms', roomId).players, playerId)]
                 IN IF <<old.x, old.y>> # <<new.x, new.y>>
                    THEN kept \cup {roomId}
                    ELSE kept
            ELSE kept

RoomNext ==
    \/ \E p \in SocketIds, r \in AllRoomIds \cup {NULL} :
           handleJoinGame(p, r) /\ UNCHANGED movedRooms
    \/ \E p \in SocketIds : \E t \in MoveTargets(p), a \in MoveAngles :
           handlePlayerMove(p, t[1], t[2], a) /\ UNCHANGED movedRooms
    \/ \E p \in SocketIds : handlePlayerReady(p) /\ UNCHANGED movedRooms
    \/ \E p \in SocketIds : LeaveGame(p) /\ UNCHANGED movedRooms
    \/ \E p \in SocketIds : Disconnect(p) /\ UNCHANGED movedRooms
    \/ Tick /\ UNCHANGED movedRooms

RoomSpec == RoomInit /\ [][RoomNext]_vars

\* The game loop is a setInterval timer: it keeps firing.
RoomFairSpec == RoomSpec /\ WF_vars(Tick /\ UNCHANGED movedRooms)

\* The room engine with movedRooms kept up to date, in the deployments with
\* one room for two players and with rooms for one player each.
RoomPushInit ==
    /\ RoomInit
    /\ (roomCap = 1 \/ env.MAX_PLAYERS_PER_GAME = "1")

RoomPushNext ==
    \/ \E p \in SocketIds, r \in AllRoomIds \cup {NULL} :
           handleJoinGame(p, r) /\ movedRooms' = MovesObserved
    \/ \E p \in SocketIds : \E t \in MoveTargets(p), a \in MoveAngles :
           handlePlayerMove(p, t[1], t[2], a) /\ movedRooms' = MovesObserved
    \/ \E p \in SocketIds : handlePlayerReady(p) /\ movedRooms' = MovesObserved
    \/ \E p \in SocketIds : LeaveGame(p) /\ movedRooms' = MovesObserved
    \/ \E p \in SocketIds : Disconnect(p) /\ movedRooms' = MovesObserved
    \/ Tick /\ movedRooms' = MovesObserved

RoomPushSpec == RoomPushInit /\ [][RoomPushNext]_vars

(***************************************************************************)
(* Properties of the room engine.                                          *)
(***************************************************************************)
Range(s) == {s[i] : i \in DOMAIN s}

\* The rooms that exist before and after a step.
StepRooms == {r \in AllRoomIds : HasId(gameRooms, r) /\ HasId(gameRooms', r)}

\* The step takes room r from one game state to another.
Goes(r, from, to) ==
    /\ RoomOf(gameRooms, r).gameState = from
    /\ RoomOf(gameRooms', r).gameState = to

PlayerIds(room) == {room.players[i].id : i \in DOMAIN room.players}

GameStarted(r) == Ev(r, "game-started", r)

\* C1: in every step that takes a room from WAITING to IN_PROGRESS the room
\* holds at least the configured minimum of players, every player of its
\* player map is in the ready set, and the step is a player-ready event.
C1_StartIsGated ==
    [][\A r \in StepRooms :
          Goes(r, WAITING, IN_PROGRESS) =>
              /\ Len(RoomOf(gameRooms, r).players)
                     >= EnvInt(env.MIN_PLAYERS_PER_GAME, DefaultMinPlayers)
              /\ Len(RoomOf(gameRooms', r).players)
                     >= EnvInt(env.MIN_PLAYERS_PER_GAME, DefaultMinPlayers)
              /\ PlayerIds(RoomOf(gameRooms', r)) \subseteq RoomOf(gameRooms', r).readyPlayers
              /\ lastEvent'[1] = "player-ready"
              /\ \E p \in SocketIds : handlePlayerReady(p)]_vars

\* A room in progress right after a player-ready event that broadcast
\* game-started to it: two players, both ready, no move made yet.
C1_Witness ==
    \E i \in DOMAIN gameRooms :
        /\ gameRooms[i].gameState = IN_PROGRESS
        /\ lastEvent[1] = "player-ready"
        /\ playerRooms[lastEvent[2]] = gameRooms[i].id
        /\ emitted = << GameStarted(gameRooms[i].id) >>
        /\ Len(gameRooms[i].players) = 2
        /\ \A j \in DOMAIN gameRooms[i].players :
               /\ gameRooms[i].players[j].angle = 0
               /\ gameRooms[i].players[j].id \in gameRooms[i].readyPlayers

\* C2: FINISHED is absorbing: no step takes an existing room from FINISHED
\* to another game state.
C2_FinishedAbsorbing ==
    [][\A r \in StepRooms :
          RoomOf(gameRooms, r).gameState = FINISHED
              => RoomOf(gameRooms', r).gameState = FINISHED]_vars

\* C4: game-started is emitted for a room only in the step that takes the
\* room from WAITING to IN_PROGRESS, hence once per room lifetime.
C4_StartedOnce ==
    [][\A r \in AllRoomIds :
          GameStarted(r) \in Range(emitted')
              => r \in StepRooms /\ Goes(r, WAITING, IN_PROGRESS)]_vars

\* The winner's id carried by a game-finished broadcast to room r.
GameFinishedFor(r) ==
    \E e \in Range(emitted) :
        e.to = r /\ e.name = "game-finished" /\ e.data \in SocketIds

\* C3: once a room is FINISHED, the tick loop eventually broadcasts
\* game-finished with the winner's id to it, unless the room is deleted.
C3_FinishedIsBroadcast ==
    \A r \in AllRoomIds :
        [](HasId(gameRooms, r) /\ RoomOf(gameRooms, r).gameState = FINISHED
             => <>(GameFinishedFor(r) \/ ~HasId(gameRooms, r)))

\* C5: the step that makes a room FINISHED is a move of the player that
\* getWinnerId() returns, and in a FINISHED room getWinnerId() is never null
\* and keeps returning that player.
C5_WinnerIsFinisher ==
    [][\A r \in AllRoomIds :
          HasId(gameRooms', r) /\ RoomOf(gameRooms', r).gameState = FINISHED =>
              IF r \in StepRooms /\ RoomOf(gameRooms, r).gameState = FINISHED
              THEN /\ getWinnerId(RoomOf(gameRooms', r)) # NULL
                   /\ getWinnerId(RoomOf(gameRooms', r)) = getWinnerId(RoomOf(gameRooms, r))
              ELSE /\ lastEvent'[1] = "player-move"
                   /\ getWinnerId(RoomOf(gameRooms', r)) = lastEvent'[2]]_vars

\* What a move may touch: every player's x, y, angle and checkpointsPassed,
\* every checkpoint's reached flag and the game state, room by room.
MoveView(rooms) ==
    [i \in DOMAIN rooms |->
        [id |-> rooms[i].id,
         players |-> [j \in DOMAIN rooms[i].players |->
                        <<rooms[i].players[j].id, rooms[i].players[j].x,
                          rooms[i].players[j].y, rooms[i].players[j].angle,
                          rooms[i].players[j].checkpointsPassed>>],
         reached |-> [j \in DOMAIN rooms[i].checkpoints |-> rooms[i].checkpoints[j].reached],
         gameState |-> rooms[i].gameState]]

\* C6: a player-move from a player whose room is not IN_PROGRESS changes no
\* player's x, y, angle or checkpointsPassed, no reached flag and no game
\* state, and emits no error.
C6_MoveOutsideGameIsNoOp ==
    [][\A p \in SocketIds :
          /\ lastEvent' = <<"player-move", p>>
          /\ playerRooms[p] # NULL
          /\ HasId(gameRooms, playerRooms[p])
          /\ RoomOf(gameRooms, playerRooms[p]).gameState # IN_PROGRESS
          => /\ MoveView(gameRooms') = MoveView(gameRooms)
             /\ \A e \in Range(emitted') : e.name # "error"]_vars

\* A player-move has just been handled for a player of a FINISHED room that
\* a different player finished: the mover stands away from the end cell.
C6_Witness ==
    \E p \in SocketIds :
        /\ lastEvent = <<"player-move", p>>
        /\ playerRooms[p] # NULL
        /\ HasId(gameRooms, playerRooms[p])
        /\ LET room == RoomOf(gameRooms, playerRooms[p])
           IN /\ room.gameState = FINISHED
              /\ getWinnerId(room) \notin {p, NULL}
              /\ \E i \in DOMAIN room.players :
                     /\ room.players[i].id = p
                     /\ room.players[i].angle = 0

\* C7: the cell (floor(x), floor(y)) of every player of every room is inside
\* the maze and is not a wall.
C7_PlayersOnOpenCells ==
    \A i \in DOMAIN gameRooms : \A j \in DOMAIN gameRooms[i].players :
        LET room == gameRooms[i]
            cellX == room.players[j].x \div Scale
            cellY == room.players[j].y \div Scale
        IN /\ cellX \in 0..(room.mazeWidth - 1)
           /\ cellY \in 0..(room.mazeHeight - 1)
           /\ room.maze[cellY][cellX] # 0

\* A player stands on a cell other than the start cell after an accepted
\* move, and the move handled last (for the other player) was not applied.
C7_Witness ==
    \E i \in DOMAIN gameRooms : \E j, k \in DOMAIN gameRooms[i].players :
        /\ gameRooms[i].gameState = IN_PROGRESS
        /\ gameRooms[i].players[j].x \div Scale # gameRooms[i].startPosition.x
        /\ gameRooms[i].players[k].angle = 0
        /\ lastEvent = <<"player-move", gameRooms[i].players[k].id>>

\* C9: a reached flag never returns to false; the step that sets one adds
\* one to the checkpointsPassed of exactly one player; checkpointsPassed of
\* a player changes in no other step.
C9_CheckpointOnce ==
    [][\A r \in StepRooms :
          LET old == RoomOf(gameRooms, r)
              new == RoomOf(gameRooms', r)
              flipped == {c \in DOMAIN old.checkpoints :
                             ~old.checkpoints[c].reached /\ new.checkpoints[c].reached}
              Passed(room, p) == room.players[IndexOfId(room.players, p)].checkpointsPassed
              both == PlayerIds(old) \cap PlayerIds(new)
          IN /\ \A c \in DOMAIN old.checkpoints :
                    old.checkpoints[c].reached => new.checkpoints[c].reached
             /\ flipped # {} =>
                    Cardinality({p \in both : Passed(new, p) = Passed(old, p) + 1}) = 1
             /\ \A p \in both :
                    Passed(new, p) # Passed(old, p)
                        => flipped # {} /\ Passed(new, p) = Passed(old, p) + 1]_vars

(***************************************************************************)
(* MazeGenerator of the session engine (utils/MazeGenerator.ts):           *)
(* 0 = floor, 1 = wall, 2 = checkpoint, 3 = finish, 4 = obstacle.          *)
(***************************************************************************)
TileFloor == 0
TileWall == 1
TileCheckpoint == 2
TileFinish == 3
TileObstacle == 4

\* Math.random() returns RandomUnit-ths; a stream is the cyclic sequence of
\* the values that successive calls return.
RandomUnit == 8
RandomStreams == { <<0>>, <<7>>, <<3, 6, 1>> }

\* The value of the n-th call of Math.random(), n = 0, 1, ...
random(stream, n) == stream[(n % Len(stream)) + 1]

\* Math.floor(Math.random() * length)
RandomIndex(stream, n, length) == (random(stream, n) * length) \div RandomUnit

SessionDirections ==
    << [dx |-> 0, dy |-> -2], [dx |-> 2, dy |-> 0],
       [dx |-> 0, dy |-> 2], [dx |-> -2, dy |-> 0] >>

\* The while (true) loop of generate: carve to a random unvisited neighbour,
\* or backtrack, until the stack is empty.  n counts the random calls made.
RECURSIVE carve(_, _, _, _, _, _, _, _)
carve(maze, visited, stack, currentX, currentY, size, stream, n) ==
    LET all == [i \in 1..4 |->
                   [x |-> currentX + SessionDirections[i].dx,
                    y |-> currentY + SessionDirections[i].dy,
                    wallX |-> currentX + SessionDirections[i].dx \div 2,
                    wallY |-> currentY + SessionDirections[i].dy \div 2]]
        Unvisited(nb) ==
            /\ nb.x >= 1 /\ nb.x < size - 1
            /\ nb.y >= 1 /\ nb.y < size - 1
            /\ <<nb.x, nb.y>> \notin visited
        neighbors == SelectSeq(all, Unvisited)
    IN IF Len(neighbors) > 0
       THEN LET next == neighbors[RandomIndex(stream, n, Len(neighbors)) + 1]
            IN carve([maze EXCEPT ![next.wallY][next.wallX] = TileFloor,
                                  ![next.y][next.x] = TileFloor],
                     visited \cup {<<next.x, next.y>>},
                     Append(stack, [x |-> currentX, y |-> currentY]),
                     next.x, next.y, size, stream, n + 1)
       ELSE IF Len(stack) > 0
       THEN carve(maze, visited, SubSeq(stack, 1, Len(stack) - 1),
                  stack[Len(stack)].x, stack[Len(stack)].y, size, stream, n)
       ELSE [maze |-> maze, n |-> n]

\* The tiles of value tile inside the border, row by row.
RECURSIVE TilesFrom(_, _, _, _)
TilesFrom(maze, size, tile, k) ==
    IF k >= (size - 2) * (size - 2)
    THEN <<>>
    ELSE LET x == 1 + (k % (size - 2))
             y == 1 + (k \div (size - 2))
         IN (IF maze[y][x] = tile THEN << [x |-> x, y |-> y] >> ELSE <<>>)
            \o TilesFrom(maze, size, tile, k + 1)

\* The placement loop of addCheckpoints and addObstacles: count times, splice
\* a random tile out of floorTiles and write tile there.
RECURSIVE placeRandomly(_, _, _, _, _, _)
placeRandomly(maze, floorTiles, count, tile, stream, n) ==
    IF count <= 0 \/ Len(floorTiles) = 0
    THEN [maze |-> maze, n |-> n]
    ELSE LET randomIndex == RandomIndex(stream, n, Len(floorTiles))
             picked == floorTiles[randomIndex + 1]
         IN placeRandomly([maze EXCEPT ![picked.y][picked.x] = tile],
                          RemoveAt(floorTiles, randomIndex + 1),
                          count - 1, tile, stream, n + 1)

addCheckpoints(maze, size, count, stream, n) ==
    placeRandomly(maze, TilesFrom(maze, size, TileFloor, 0), count, TileCheckpoint,
                  stream, n)

\* Math.floor(size * 0.7 + Math.random() * size * 0.25)
FinishDraw(size, stream, n) ==
    (size * (70 * RandomUnit + 25 * random(stream, n))) \div (100 * RandomUnit)

FinishAttempts == 20

\* A finish placement that writes wherever the first draw points.
addFinish_AnyTile(maze, size, stream, n, attempts) ==
    LET x == FinishDraw(size, stream, n)
        y == FinishDraw(size, stream, n + 1)
    IN [maze |-> [maze EXCEPT ![y][x] = TileFinish], n |-> n + 2]

RECURSIVE addFinish(_, _, _, _, _)
addFinish(maze, size, stream, n, attempts) ==
    IF attempts < FinishAttempts
    THEN LET x == FinishDraw(size, stream, n)
             y == FinishDraw(size, stream, n + 1)
         IN IF x < size - 1 /\ y < size - 1 /\ maze[y][x] = TileFloor
            THEN [maze |-> [maze EXCEPT ![y][x] = TileFinish], n |-> n + 2]
            ELSE addFinish(maze, size, stream, n + 2, attempts + 1)
    ELSE \* fallback: the first floor tile of the bottom half
         LET bottom == SelectSeq(TilesFrom(maze, size, TileFloor, 0),
                                 LAMBDA t : t.y >= size \div 2)
         IN IF Len(bottom) > 0
            THEN [maze |-> [maze EXCEPT ![bottom[1].y][bottom[1].x] = TileFinish],
                  n |-> n]
            ELSE [maze |-> maze, n |-> n]

addObstacles(maze, size, difficulty, stream, n) ==
    LET floorTiles == TilesFrom(maze, size, TileFloor, 0)
        obstacleCount == (Len(floorTiles) * 5 * difficulty) \div 100
    IN placeRandomly(maze, floorTiles, obstacleCount, TileObstacle, stream, n)

\* MazeGenerator.generate(size, difficulty) when Math.random() returns stream.
MazeGenerate(size, difficulty, stream) ==
    LET walls == [y \in 0..(size - 1) |-> [x \in 0..(size - 1) |-> TileWall]]
        carved == carve([walls EXCEPT ![1][1] = TileFloor], {<<1, 1>>}, <<>>,
                        1, 1, size, stream, 0)
        marked == addCheckpoints(carved.maze, size,
                                 IF size \div 10 > 2 THEN size \div 10 ELSE 2,
                                 stream, carved.n)
        finished == addFinish(marked.maze, size, stream, marked.n, 0)
    IN addObstacles(finished.maze, size, difficulty, stream, finished.n).maze

(***************************************************************************)
(* The session engine: services/GameManager.ts.                            *)
(* A position is kept in units of 1/Half of a tile, so that a move by half *)
(* a tile can be told from a move by a tile.                               *)
(***************************************************************************)
NumSockets == 2
MaxInFlight == 1
MaxCheckpointsReached == 3
MaxTime == 2
Half == 2

\* DEFAULT_GAME_CONFIG.maze.minSize and maxSize are 15 and 50; the sessions
\* explored have mazes of this size.
MazeMinSize == 5
MazeMaxSize == 5
sizeMultiplier == 3
defaultLives == 3
DefaultSessionMaxPlayers == 6

SocketNames == {"s" \o ToString(i) : i \in 1..NumSockets}
UserIdOf(socketId) == "u" \o socketId
UserOf(socketId) == [id |-> UserIdOf(socketId), username |-> "name-" \o socketId]
UserIds == {UserIdOf(sk) : sk \in SocketNames}
SessionIdOf(i) == "session-" \o ToString(i)
RoomCodeOf(i) == "CODE" \o ToString(i)

Max(a, b) == IF a >= b THEN a ELSE b
Min(a, b) == IF a <= b THEN a ELSE b

\* The rows of the abilities table with is_starter = 1.
Teleport == [id |-> "a-teleport", name |-> "Teleport", cooldownMs |-> 2]
Shield == [id |-> "a-shield", name |-> "Shield", cooldownMs |-> 1]
\* A starter ability whose name handleAbilityUse has no case for.
Dash == [id |-> "a-dash", name |-> "Dash", cooldownMs |-> 1]

\* createSession(hostId, settings): the await of the INSERT is over.
createSession(hostId, settings) ==
    LET playerCount == 1
        mazeSize == Min(MazeMaxSize,
                        Max(MazeMinSize, settings.baseSize + playerCount * sizeMultiplier))
        i == Len(activeSessions) + 1
    IN [id |-> SessionIdOf(i),
        roomCode |-> RoomCodeOf(i),
        hostId |-> hostId,
        players |-> <<>>,
        maze |-> MazeGenerate(mazeSize, settings.difficulty, randomStream),
        mazeSize |-> mazeSize,
        settings |-> [maxPlayers |-> IF settings.maxPlayers = 0
                                     THEN DefaultSessionMaxPlayers
                                     ELSE settings.maxPlayers,
                      difficulty |-> IF settings.difficulty = 0 THEN 1
                                     ELSE settings.difficulty],
        status |-> WAITING]

findSpawnPosition(maze, size) ==
    LET floorTiles == TilesFrom(maze, size, TileFloor, 0)
    IN IF Len(floorTiles) > 0
       THEN [x |-> floorTiles[1].x * Half, y |-> floorTiles[1].y * Half]
       ELSE [x |-> 1 * Half, y |-> 1 * Half]

\* getPlayerStartingAbilities: no user owns abilities, so the first three
\* starter abilities are given.
getPlayerStartingAbilities(playerId) ==
    SubSeq(db.starters, 1, Min(3, Len(db.starters)))

\* joinSession up to its first await: the session found, or the error thrown.
joinSessionBegin(sessions, roomCode) ==
    LET found == {i \in DOMAIN sessions :
                     sessions[i].roomCode = roomCode /\ sessions[i].status = WAITING}
    IN IF found = {}
       THEN [error |-> "Game session not found or already started"]
       ELSE LET targetSession == sessions[CHOOSE i \in found : \A j \in found : i <= j]
            IN IF Len(targetSession.players) >= targetSession.settings.maxPlayers
               THEN [error |-> "Game session is full"]
               ELSE [error |-> NULL,
                     sessionId |-> targetSession.id,
                     startPosition |-> findSpawnPosition(targetSession.maze,
                                                         targetSession.mazeSize)]

\* The player joinSession builds once the abilities are there.  position and
\* lastCheckpointPosition are one object: positionShared.
SessionPlayer(playerId, startPosition, playerAbilities) ==
    [id |-> playerId,
     username |-> NULL,
     position |-> startPosition,
     facing |-> 0,
     lives |-> defaultLives,
     eliminations |-> 0,
     checkpointsReached |-> 0,
     status |-> "alive",
     abilities |-> playerAbilities,
     activeCooldowns |-> <<>>,
     lastCheckpointPosition |-> startPosition,
     positionShared |-> TRUE]

\* getSession and getSessionByPlayer give the place of the session in
\* activeSessions, 0 for undefined.
getSession(sessionId) == IndexOfId(activeSessions, sessionId)

getSessionByPlayer(playerId) ==
    IF playerSessions[playerId] = NULL THEN 0 ELSE getSession(playerSessions[playerId])

(***************************************************************************)
(* The session engine: controllers/SocketHandler.ts.                       *)
(***************************************************************************)
InFlight(socketId) == Cardinality({j \in pendingJoins : j.socketId = socketId})

Message(session, type) == Ev(session.id, "message", type)

broadcastGameState(session) == Ev(session.id, "gameState", session.status)

authenticate(socketId, valid) ==
    /\ lastSocketEvent' = <<"authenticate", socketId>>
    /\ IF valid
       THEN /\ connectedUsers' = [connectedUsers EXCEPT ![socketId] = UserIdOf(socketId)]
            /\ sent' = << Ev(socketId, "authenticated", UserIdOf(socketId)) >>
       ELSE /\ UNCHANGED connectedUsers
            /\ sent' = << Ev(socketId, "error", "Authentication failed") >>
    /\ UNCHANGED <<db, sessionCap, clients, randomStream, activeSessions, playerSessions,
                   pendingJoins, now, roomVars, mazeVars>>

\* The call of joinSession by a handler, up to the await of the abilities.
\* sessions holds a session the handler has just created.
joinSessionCalled(socketId, sessions, roomCode, handler, failure) ==
    LET begun == joinSessionBegin(sessions, roomCode)
    IN /\ activeSessions' = sessions
       /\ IF begun.error # NULL
          THEN /\ UNCHANGED pendingJoins
               /\ sent' = << Ev(socketId, "error",
                                IF failure = NULL THEN begun.error ELSE failure) >>
          ELSE /\ pendingJoins' = pendingJoins \cup
                      { [socketId |-> socketId,
                         playerId |-> connectedUsers[socketId],
                         sessionId |-> begun.sessionId,
                         startPosition |-> begun.startPosition,
                         stage |-> "abilities",
                         handler |-> handler,
                         failure |-> failure] }
               /\ sent' = <<>>

NotAuthenticated(socketId) ==
    /\ sent' = << Ev(socketId, "error", "Not authenticated") >>
    /\ UNCHANGED <<activeSessions, pendingJoins>>

\* A createGame handler that does not look the socket up in connectedUsers.
createGame_Unchecked(socketId, settings) ==
    /\ lastSocketEvent' = <<"createGame", socketId>>
    /\ UNCHANGED <<db, sessionCap, clients, randomStream, connectedUsers, playerSessions, now,
                   roomVars, mazeVars>>
    /\ Len(activeSessions) < sessionCap
    /\ InFlight(socketId) < MaxInFlight
    /\ LET session == createSession(UserIdOf(socketId), settings)
       IN joinSessionCalled(socketId, Append(activeSessions, session),
                            session.roomCode, "createGame", "Failed to create game")

createGame(socketId, settings) ==
    /\ lastSocketEvent' = <<"createGame", socketId>>
    /\ UNCHANGED <<db, sessionCap, clients, randomStream, connectedUsers, playerSessions, now,
                   roomVars, mazeVars>>
    /\ IF connectedUsers[socketId] = NULL
       THEN NotAuthenticated(socketId)
       ELSE /\ Len(activeSessions) < sessionCap
            /\ InFlight(socketId) < MaxInFlight
            /\ LET session == createSession(connectedUsers[socketId], settings)
               IN joinSessionCalled(socketId, Append(activeSessions, session),
                                    session.roomCode, "createGame",
                                    "Failed to create game")

joinGame(socketId, roomCode) ==
    /\ lastSocketEvent' = <<"joinGame", socketId>>
    /\ UNCHANGED <<db, sessionCap, clients, randomStream, connectedUsers, playerSessions, now,
                   roomVars, mazeVars>>
    /\ IF connectedUsers[socketId] = NULL
       THEN NotAuthenticated(socketId)
       ELSE /\ InFlight(socketId) < MaxInFlight
            /\ joinSessionCalled(socketId, activeSessions, roomCode, "joinGame", NULL)

QuickPlaySettings == [maxPlayers |-> 6, difficulty |-> 1, baseSize |-> 20]

quickPlay(socketId) ==
    /\ lastSocketEvent' = <<"quickPlay", socketId>>
    /\ UNCHANGED <<db, sessionCap, clients, randomStream, connectedUsers, playerSessions, now,
                   roomVars, mazeVars>>
    /\ IF connectedUsers[socketId] = NULL
       THEN NotAuthenticated(socketId)
       ELSE /\ Len(activeSessions) < sessionCap
            /\ InFlight(socketId) < MaxInFlight
            /\ LET session == createSession(connectedUsers[socketId], QuickPlaySettings)
               IN joinSessionCalled(socketId, Append(activeSessions, session),
                                    session.roomCode, "quickPlay",
                                    "Failed to find game")

\* joinSession from its first await (the abilities) to its second (the
\* INSERT of the participant): the player is put into the session.
joinSessionResumed(join) ==
    LET i == getSession(join.sessionId)
        session == activeSessions[i]
        player == SessionPlayer(join.playerId, join.startPosition,
                                getPlayerStartingAbilities(join.playerId))
    IN /\ join.stage = "abilities"
       /\ lastSocketEvent' = <<"joinSession", join.socketId>>
       /\ pendingJoins' = (pendingJoins \ {join}) \cup {[join EXCEPT !.stage = "insert"]}
       /\ activeSessions' = [activeSessions EXCEPT ![i].players = MapSet(@, player)]
       /\ playerSessions' = [playerSessions EXCEPT ![join.playerId] = join.sessionId]
       /\ sent' = <<>>
       /\ UNCHANGED <<db, sessionCap, clients, randomStream, connectedUsers, now, roomVars, mazeVars>>

\* joinSession returns, and the handler that called it goes on: the player,
\* if still in the session, is named, and the clients are told.
joinSessionReturned(join) ==
    LET i == getSession(join.sessionId)
        session == activeSessions[i]
        pi == IndexOfId(session.players, join.playerId)
        named == IF pi = 0 THEN session
                 ELSE [session EXCEPT !.players[pi].username = "name-" \o join.socketId]
    IN /\ join.stage = "insert"
       /\ lastSocketEvent' = <<"joinReturned", join.socketId>>
       /\ pendingJoins' = pendingJoins \ {join}
       /\ activeSessions' = [activeSessions EXCEPT ![i] = named]
       /\ sent' = << Ev(join.socketId, "gameJoined", join.sessionId) >>
                  \o (IF join.handler = "joinGame"
                      THEN << Ev(join.sessionId, "playerJoined", join.playerId),
                              Message(named, "system") >>
                      ELSE <<>>)
       /\ UNCHANGED <<db, sessionCap, clients, randomStream, connectedUsers, playerSessions,
                      now, roomVars, mazeVars>>

\* The query awaited fails: joinSession throws, and the handler's catch
\* emits the error.  What joinSession did before the await stays.
joinSessionFailed(join) ==
    /\ lastSocketEvent' = <<"joinFailed", join.socketId>>
    /\ pendingJoins' = pendingJoins \ {join}
    /\ sent' = << Ev(join.socketId, "error",
                     IF join.failure = NULL THEN "database" ELSE join.failure) >>
    /\ UNCHANGED <<db, sessionCap, clients, randomStream, connectedUsers, activeSessions,
                   playerSessions, now, roomVars, mazeVars>>

\* session.maze[y][x] for coordinates in 1/Half tiles: undefined when x is
\* not a whole number (y always is one, see MoveDeltas).
UndefinedTile == 0 - 1

TileAt(maze, x, y) ==
    IF x % Half = 0 THEN maze[y \div Half][x \div Half] ELSE UndefinedTile

\* player.position = value, an object of its own
SetPosition(player, value) ==
    [player EXCEPT !.position = value, !.positionShared = FALSE]

handleObstacleInteraction(session, player) ==
    LET hurt == [player EXCEPT !.lives = @ - 1]
    IN IF hurt.lives <= 0
       THEN [player |-> [hurt EXCEPT !.status = "dead"],
             messages |-> << Message(session, "elimination") >>]
       ELSE [player |-> SetPosition(hurt, hurt.lastCheckpointPosition),
             messages |-> << Message(session, "system") >>]

checkTileInteraction(session, player, x, y) ==
    LET tileType == TileAt(session.maze, x, y)
    IN IF tileType = TileCheckpoint
       THEN [player |-> [player EXCEPT !.checkpointsReached = @ + 1,
                                       !.lastCheckpointPosition = [x |-> x, y |-> y],
                                       !.positionShared = FALSE],
             messages |-> << Message(session, "system") >>]
       ELSE IF tileType = TileFinish
       THEN [player |-> [player EXCEPT !.status = "finished"],
             messages |-> << Message(session, "system") >>]
       ELSE IF tileType = TileObstacle
       THEN handleObstacleInteraction(session, player)
       ELSE [player |-> player, messages |-> <<>>]

\* player.position.x = newX; player.position.y = newY: written into the
\* object that lastCheckpointPosition may still share.
MovePosition(player, newX, newY) ==
    IF player.positionShared
    THEN [player EXCEPT !.position = [x |-> newX, y |-> newY],
                        !.lastCheckpointPosition = [x |-> newX, y |-> newY]]
    ELSE [player EXCEPT !.position = [x |-> newX, y |-> newY]]

SessionQuiet == UNCHANGED activeSessions /\ sent' = <<>>

\* A move handler that does not look at the player's status.
move_AnyStatus(socketId, dx, dy) ==
    /\ lastSocketEvent' = <<"move", socketId>>
    /\ UNCHANGED <<db, sessionCap, clients, randomStream, connectedUsers, playerSessions,
                   pendingJoins, now, roomVars, mazeVars>>
    /\ LET userId == connectedUsers[socketId]
           si == IF userId = NULL THEN 0 ELSE getSessionByPlayer(userId)
           pi == IF si = 0 THEN 0 ELSE IndexOfId(activeSessions[si].players, userId)
       IN IF pi = 0
          THEN SessionQuiet
          ELSE LET session == activeSessions[si]
                   player == session.players[pi]
                   limit == (session.mazeSize - 1) * Half
                   newX == Max(0, Min(limit, player.position.x + dx))
                   newY == Max(0, Min(limit, player.position.y + dy))
               IN IF TileAt(session.maze, newX, newY) # TileWall
                  THEN LET met == checkTileInteraction(session,
                                      MovePosition(player, newX, newY), newX, newY)
                       IN /\ met.player.checkpointsReached <= MaxCheckpointsReached
                          /\ activeSessions' =
                                 [activeSessions EXCEPT ![si].players[pi] = met.player]
                          /\ sent' = met.messages \o << broadcastGameState(session) >>
                  ELSE SessionQuiet

move(socketId, dx, dy) ==
    /\ lastSocketEvent' = <<"move", socketId>>
    /\ UNCHANGED <<db, sessionCap, clients, randomStream, connectedUsers, playerSessions,
                   pendingJoins, now, roomVars, mazeVars>>
    /\ LET userId == connectedUsers[socketId]
           si == IF userId = NULL THEN 0 ELSE getSessionByPlayer(userId)
           pi == IF si = 0 THEN 0 ELSE IndexOfId(activeSessions[si].players, userId)
       IN IF pi = 0
          THEN SessionQuiet
          ELSE LET session == activeSessions[si]
                   player == session.players[pi]
                   limit == (session.mazeSize - 1) * Half
                   newX == Max(0, Min(limit, player.position.x + dx))
                   newY == Max(0, Min(limit, player.position.y + dy))
               IN IF player.status # "alive"
                  THEN SessionQuiet
                  ELSE IF TileAt(session.maze, newX, newY) # TileWall
                  THEN LET met == checkTileInteraction(session,
                                      MovePosition(player, newX, newY), newX, newY)
                       IN /\ met.player.checkpointsReached <= MaxCheckpointsReached
                          /\ activeSessions' =
                                 [activeSessions EXCEPT ![si].players[pi] = met.player]
                          /\ sent' = met.messages \o << broadcastGameState(session) >>
                  ELSE SessionQuiet

updateFacing(socketId, facing) ==
    /\ lastSocketEvent' = <<"updateFacing", socketId>>
    /\ UNCHANGED <<db, sessionCap, clients, randomStream, connectedUsers, playerSessions,
                   pendingJoins, now, roomVars, mazeVars>>
    /\ LET userId == connectedUsers[socketId]
           si == IF userId = NULL THEN 0 ELSE getSessionByPlayer(userId)
           pi == IF si = 0 THEN 0 ELSE IndexOfId(activeSessions[si].players, userId)
       IN IF pi = 0
          THEN SessionQuiet
          ELSE /\ activeSessions' = [activeSessions EXCEPT ![si].players[pi].facing = facing]
               /\ sent' = << broadcastGameState(activeSessions[si]) >>


\* The loop of handleTeleport: up to range steps of (dx, dy), stopping at
\* the border and in front of a wall.
TeleportRange == 3

RECURSIVE TeleportSteps(_, _, _, _, _, _)
TeleportSteps(session, newX, newY, dx, dy, i) ==
    LET testX == newX + dx
        testY == newY + dy
    IN IF i < TeleportRange
          /\ testX >= 0 /\ testX < session.mazeSize * Half
          /\ testY >= 0 /\ testY < session.mazeSize * Half
          /\ TileAt(session.maze, testX, testY) # TileWall
       THEN TeleportSteps(session, testX, testY, dx, dy, i + 1)
       ELSE [x |-> newX, y |-> newY]

Sign(n) == IF n > 0 THEN 1 ELSE IF n < 0 THEN -1 ELSE 0

\* target is in tiles, like the maze the client was sent.
handleTeleport(session, player, target) ==
    LET dx == Sign(target.x * Half - player.position.x) * Half
        dy == Sign(target.y * Half - player.position.y) * Half
    IN [player |-> SetPosition(player,
                       TeleportSteps(session, player.position.x, player.position.y,
                                     dx, dy, 0)),
        messages |-> << Message(session, "system") >>]

CooldownEnd(player, abilityId) ==
    IF HasId(player.activeCooldowns, abilityId)
    THEN player.activeCooldowns[IndexOfId(player.activeCooldowns, abilityId)].until
    ELSE 0

\* An ability handler that does not look at the cooldown.
handleAbilityUse_NoCooldown(session, player, abilityId, target, time) ==
    IF ~HasId(player.abilities, abilityId)
    THEN [player |-> player, messages |-> <<>>]
    ELSE LET ability == player.abilities[IndexOfId(player.abilities, abilityId)]
             cooled == [player EXCEPT !.activeCooldowns =
                           MapSet(@, [id |-> abilityId,
                                      until |-> time + ability.cooldownMs])]
             used == IF ability.name = "Teleport"
                     THEN handleTeleport(session, cooled, target)
                     ELSE IF ability.name \in {"Speed Boost", "Shield"}
                     THEN [player |-> cooled, messages |-> << Message(session, "system") >>]
                     ELSE [player |-> cooled, messages |-> <<>>]
         IN [player |-> used.player,
             messages |-> used.messages \o << broadcastGameState(session) >>]

\* handleAbilityUse when Date.now() returns time; an early return leaves the
\* player as it is and sends nothing.
handleAbilityUse(session, player, abilityId, target, time) ==
    IF ~HasId(player.abilities, abilityId) \/ time < CooldownEnd(player, abilityId)
    THEN [player |-> player, messages |-> <<>>]
    ELSE LET ability == player.abilities[IndexOfId(player.abilities, abilityId)]
             cooled == [player EXCEPT !.activeCooldowns =
                           MapSet(@, [id |-> abilityId,
                                      until |-> time + ability.cooldownMs])]
             used == IF ability.name = "Teleport"
                     THEN handleTeleport(session, cooled, target)
                     ELSE IF ability.name \in {"Speed Boost", "Shield"}
                     THEN [player |-> cooled, messages |-> << Message(session, "system") >>]
                     ELSE [player |-> cooled, messages |-> <<>>]
         IN [player |-> used.player,
             messages |-> used.messages \o << broadcastGameState(session) >>]

\* useAbility; time is what Date.now() returns, should the handler read it.
useAbility(socketId, abilityId, ox, oy, time) ==
    /\ lastSocketEvent' = <<"useAbility", socketId, abilityId>>
    /\ UNCHANGED <<db, sessionCap, clients, randomStream, connectedUsers, playerSessions,
                   pendingJoins, roomVars, mazeVars>>
    /\ LET userId == connectedUsers[socketId]
           si == IF userId = NULL THEN 0 ELSE getSessionByPlayer(userId)
           pi == IF si = 0 THEN 0 ELSE IndexOfId(activeSessions[si].players, userId)
       IN IF pi = 0
          THEN SessionQuiet /\ UNCHANGED now
          ELSE LET session == activeSessions[si]
                   player == session.players[pi]
                   target == [x |-> player.position.x \div Half + ox,
                              y |-> player.position.y \div Half + oy]
                   used == handleAbilityUse(session, player, abilityId, target, time)
               IN IF player.status # "alive"
                  THEN SessionQuiet /\ UNCHANGED now
                  ELSE /\ activeSessions' =
                              [activeSessions EXCEPT ![si].players[pi] = used.player]
                       /\ sent' = used.messages
                       /\ now' = IF HasId(player.abilities, abilityId) THEN time ELSE now

handlePlayerLeave(socketId) ==
    LET userId == connectedUsers[socketId]
        si == IF userId = NULL THEN 0 ELSE getSessionByPlayer(userId)
    IN IF si = 0
       THEN SessionQuiet
       ELSE LET session == activeSessions[si]
            IN /\ activeSessions' =
                      [activeSessions EXCEPT ![si].players = MapDelete(@, userId)]
               /\ sent' = << Ev(session.id, "playerLeft", userId),
                             Message(session, "system") >>

leaveGame(socketId) ==
    /\ lastSocketEvent' = <<"leaveGame", socketId>>
    /\ handlePlayerLeave(socketId)
    /\ UNCHANGED <<db, sessionCap, clients, randomStream, connectedUsers, playerSessions,
                   pendingJoins, now, roomVars, mazeVars>>

disconnect(socketId) ==
    /\ lastSocketEvent' = <<"disconnect", socketId>>
    /\ handlePlayerLeave(socketId)
    /\ connectedUsers' = [connectedUsers EXCEPT ![socketId] = NULL]
    /\ UNCHANGED <<db, sessionCap, clients, randomStream, playerSessions, pendingJoins, now,
                   roomVars, mazeVars>>

(***************************************************************************)
(* The runs of the session engine explored.                                *)
(***************************************************************************)
MaxSessions == 1

\* The (dx, dy) explored, in 1/Half tiles: a tile in each direction and no
\* move; some runs add half a tile to the right.  dy is a whole number of
\* tiles: otherwise session.maze[newY] is undefined and the handler throws.
TileDeltas == { <<Half, 0>>, <<-Half, 0>>, <<0, Half>>, <<0, -Half>>, <<0, 0>> }
MoveDeltas == TileDeltas \cup { <<1, 0>> }

AbilityIds == {Teleport.id, Shield.id, Dash.id, "a-unknown"}

\* The targets of an ability explored: tiles around the player's own tile.
TargetOffsets == { <<1, 0>>, <<-1, 0>>, <<0, 1>>, <<0, -1>> }

FacingValues == {1}

SessionScenarios ==
    { \* one player, obstacles, no abilities, every stream of random values
      [sockets |-> {"s1"}, starters |-> <<>>, slowInsert |-> FALSE, streams |-> RandomStreams,
       settings |-> {[maxPlayers |-> 2, difficulty |-> 5, baseSize |-> 2],
                     [maxPlayers |-> 0, difficulty |-> 10, baseSize |-> 2]},
       deltas |-> TileDeltas, abilityIds |-> {"a-unknown"}, targets |-> {<<1, 0>>},
       facings |-> FacingValues],
      \* one player who also moves by half a tile
      [sockets |-> {"s1"}, starters |-> <<>>, slowInsert |-> FALSE, streams |-> {<<0>>},
       settings |-> {[maxPlayers |-> 2, difficulty |-> 5, baseSize |-> 2]},
       deltas |-> MoveDeltas, abilityIds |-> {"a-unknown"}, targets |-> {<<1, 0>>},
       facings |-> {}],
      \* one player with Teleport
      [sockets |-> {"s1"}, starters |-> << Teleport >>, slowInsert |-> FALSE,
       streams |-> {<<3, 6, 1>>},
       settings |-> {[maxPlayers |-> 2, difficulty |-> 5, baseSize |-> 2]},
       deltas |-> TileDeltas, abilityIds |-> {Teleport.id, "a-unknown"},
       targets |-> TargetOffsets, facings |-> {}],
      \* one player with abilities that do not move the player
      [sockets |-> {"s1"}, starters |-> << Shield, Dash >>, slowInsert |-> FALSE,
       streams |-> {<<3, 6, 1>>},
       settings |-> {[maxPlayers |-> 2, difficulty |-> 5, baseSize |-> 2]},
       deltas |-> {<<Half, 0>>}, abilityIds |-> {Shield.id, Dash.id, "a-unknown"},
       targets |-> {<<1, 0>>}, facings |-> {}],
      \* two players who walk to the right
      [sockets |-> SocketNames, starters |-> <<>>, slowInsert |-> FALSE, streams |-> {<<3, 6, 1>>},
       settings |-> {[maxPlayers |-> 2, difficulty |-> 1, baseSize |-> 2]},
       deltas |-> {<<Half, 0>>}, abilityIds |-> {"a-unknown"}, targets |-> {<<1, 0>>},
       facings |-> {}],
      \* two users who join a session for one player while the database is slow
      [sockets |-> SocketNames, starters |-> <<>>, slowInsert |-> TRUE, streams |-> {<<3, 6, 1>>},
       settings |-> {[maxPlayers |-> 1, difficulty |-> 1, baseSize |-> 2]},
       deltas |-> {}, abilityIds |-> {"a-unknown"}, targets |-> {<<1, 0>>},
       facings |-> {}],
      \* one player with Teleport who steps half a tile to the right
      [sockets |-> {"s1"}, starters |-> << Teleport >>, slowInsert |-> FALSE,
       streams |-> {<<0>>},
       settings |-> {[maxPlayers |-> 2, difficulty |-> 1, baseSize |-> 2]},
       deltas |-> {<<1, 0>>}, abilityIds |-> {Teleport.id}, targets |-> {<<1, 0>>, <<0, 1>>},
       facings |-> {}] }

RoomCodes == {RoomCodeOf(i) : i \in 1..MaxSessions} \cup {"NOCODE"}

SessionInit ==
    /\ \E sc \in SessionScenarios :
           /\ db = [starters |-> sc.starters, slowInsert |-> sc.slowInsert]
           /\ clients = [sockets |-> sc.sockets, settings |-> sc.settings,
                         deltas |-> sc.deltas, abilityIds |-> sc.abilityIds, targets |-> sc.targets,
                         facings |-> sc.facings]
           /\ randomStream \in sc.streams
    /\ sessionCap = MaxSessions
    /\ connectedUsers = [sk \in SocketNames |-> NULL]
    /\ activeSessions = <<>>
    /\ playerSessions = [u \in UserIds |-> NULL]
    /\ pendingJoins = {}
    /\ now = 1
    /\ sent = <<>>
    /\ lastSocketEvent = <<"", NULL>>
    /\ RoomIdle
    /\ MazeIdle

\* The targets explored for an ability: only handleTeleport reads the target.
TargetsFor(abilityId) ==
    IF abilityId = Teleport.id THEN clients.targets ELSE {<<1, 0>>}

\* The database has answered every INSERT of a participant, or the run is
\* one where client events arrive while an INSERT is awaited.
InsertAnswered == db.slowInsert \/ \A join \in pendingJoins : join.stage # "insert"

SessionNext ==
    \/ InsertAnswered /\ \E sk \in clients.sockets, valid \in BOOLEAN : authenticate(sk, valid)
    \/ InsertAnswered /\ \E sk \in clients.sockets, settings \in clients.settings :
           createGame(sk, settings)
    \/ InsertAnswered /\ \E sk \in clients.sockets, roomCode \in RoomCodes : joinGame(sk, roomCode)
    \/ InsertAnswered /\ \E sk \in clients.sockets : quickPlay(sk)
    \/ \E join \in pendingJoins : joinSessionResumed(join)
    \/ \E join \in pendingJoins : joinSessionReturned(join)
    \/ \E join \in pendingJoins : joinSessionFailed(join)
    \/ InsertAnswered /\ \E sk \in clients.sockets, d \in clients.deltas : move(sk, d[1], d[2])
    \/ InsertAnswered /\ \E sk \in clients.sockets, facing \in clients.facings :
           updateFacing(sk, facing)
    \/ InsertAnswered /\ \E sk \in clients.sockets, abilityId \in clients.abilityIds :
           \E o \in TargetsFor(abilityId), time \in now..MaxTime :
               useAbility(sk, abilityId, o[1], o[2], time)
    \/ InsertAnswered /\ \E sk \in clients.sockets : leaveGame(sk)
    \/ InsertAnswered /\ \E sk \in clients.sockets : disconnect(sk)

SessionSpec == SessionInit /\ [][SessionNext]_vars


(***************************************************************************)
(* Properties of the session engine.                                       *)
(***************************************************************************)
\* C8: the position of every player of every session is a tile of the
\* maze (whole coordinates inside the grid) that is not a wall.
C8_PositionsOnOpenTiles ==
    \A i \in DOMAIN activeSessions : \A j \in DOMAIN activeSessions[i].players :
        LET session == activeSessions[i]
            position == session.players[j].position
        IN /\ position.x % Half = 0
           /\ position.y % Half = 0
           /\ position.x \div Half \in 0..(session.mazeSize - 1)
           /\ position.y \div Half \in 0..(session.mazeSize - 1)
           /\ session.maze[position.y \div Half][position.x \div Half] # TileWall

\* Lives stay in 0..defaultLives, and are 0 exactly for a dead player.
LivesInRange ==
    \A i \in DOMAIN activeSessions : \A j \in DOMAIN activeSessions[i].players :
        /\ activeSessions[i].players[j].lives \in 0..defaultLives
        /\ activeSessions[i].players[j].lives = 0
               <=> activeSessions[i].players[j].status = "dead"

\* What a move event of socket sk with (dx, dy) does to the lives of its
\* player: nothing at all once the player is dead, minus one when an alive
\* player steps on an obstacle, and no change of lives otherwise.
MoveAndLives(sk, dx, dy) ==
    LET userId == connectedUsers[sk]
        si == IF userId = NULL THEN 0 ELSE getSessionByPlayer(userId)
        pi == IF si = 0 THEN 0 ELSE IndexOfId(activeSessions[si].players, userId)
    IN pi # 0 =>
          LET session == activeSessions[si]
              player == session.players[pi]
              after == activeSessions'[si].players[pi]
              limit == (session.mazeSize - 1) * Half
              tile == TileAt(session.maze,
                             Max(0, Min(limit, player.position.x + dx)),
                             Max(0, Min(limit, player.position.y + dy)))
          IN IF player.status = "dead"
             THEN activeSessions' = activeSessions /\ sent' = <<>>
             ELSE IF player.status = "alive" /\ tile = TileObstacle
             THEN after.lives = player.lives - 1
             ELSE after.lives = player.lives

\* C10: lives stay in 0..defaultLives; an obstacle collision of an alive
\* player takes exactly one life; lives = 0 exactly when the status is
\* dead; a move event of a dead player changes nothing and emits nothing.
C10_LivesAndDeath ==
    /\ []LivesInRange
    /\ [][\A sk \in SocketNames : \A d \in MoveDeltas :
             move(sk, d[1], d[2]) => MoveAndLives(sk, d[1], d[2])]_vars

\* A move event has just been handled for a player who had lost all lives
\* on obstacles before: it emitted nothing.
C10_Witness ==
    \E sk \in SocketNames :
        /\ lastSocketEvent = <<"move", sk>>
        /\ sent = <<>>
        /\ connectedUsers[sk] # NULL
        /\ getSessionByPlayer(connectedUsers[sk]) # 0
        /\ LET session == activeSessions[getSessionByPlayer(connectedUsers[sk])]
           IN \E j \in DOMAIN session.players :
                  /\ session.players[j].id = connectedUsers[sk]
                  /\ session.players[j].lives = 0
                  /\ session.players[j].status = "dead"


\* The players of session i before and after a step, by id.
SessionPlayerIds(session) == {session.players[j].id : j \in DOMAIN session.players}

PlayerOf(session, id) == session.players[IndexOfId(session.players, id)]

\* C11: a player whose status is dead or finished is not alive after any
\* step that leaves the player a member of the session, and the step does
\* not raise the player's lives.
C11_StatusIsTerminal ==
    [][\A i \in DOMAIN activeSessions :
          \A id \in SessionPlayerIds(activeSessions[i]) :
              /\ i \in DOMAIN activeSessions'
              /\ id \in SessionPlayerIds(activeSessions'[i])
              /\ PlayerOf(activeSessions[i], id).status \in {"dead", "finished"}
              => /\ PlayerOf(activeSessions'[i], id).status # "alive"
                 /\ PlayerOf(activeSessions'[i], id).lives
                        <= PlayerOf(activeSessions[i], id).lives]_vars


\* The player of the user of socket sk in the session the directory gives,
\* as <<session index, player index>>; <<0, 0>> when there is none.
PlayerAt(sk) ==
    LET userId == connectedUsers[sk]
        si == IF userId = NULL THEN 0 ELSE getSessionByPlayer(userId)
        pi == IF si = 0 THEN 0 ELSE IndexOfId(activeSessions[si].players, userId)
    IN IF pi = 0 THEN <<0, 0>> ELSE <<si, pi>>

\* C12: a useAbility event for an ability the player owns, handled at a time
\* (the value of now after the step) before the cooldown recorded for it,
\* changes no session (cooldowns and positions included) and emits nothing.
C12_CooldownBlocksUse ==
    [][\A sk \in SocketNames, a \in AbilityIds :
          /\ lastSocketEvent' = <<"useAbility", sk, a>>
          /\ PlayerAt(sk) # <<0, 0>>
          /\ LET player == activeSessions[PlayerAt(sk)[1]].players[PlayerAt(sk)[2]]
             IN HasId(player.abilities, a) /\ now' < CooldownEnd(player, a)
          => activeSessions' = activeSessions /\ sent' = <<>>]_vars

\* An alive player has just used Teleport while its cooldown was running:
\* nothing was emitted.
C12_Witness ==
    \E sk \in SocketNames :
        /\ lastSocketEvent = <<"useAbility", sk, Teleport.id>>
        /\ sent = <<>>
        /\ PlayerAt(sk) # <<0, 0>>
        /\ LET player == activeSessions[PlayerAt(sk)[1]].players[PlayerAt(sk)[2]]
           IN /\ player.status = "alive"
              /\ HasId(player.abilities, Teleport.id)
              /\ now < CooldownEnd(player, Teleport.id)
              /\ player.position # player.lastCheckpointPosition


\* C13: a player id is in the player map of a registered room exactly when
\* playerRooms maps the id to that room.
C13_DirectoryConsistent ==
    \A p \in SocketIds : \A r \in AllRoomIds :
        (HasId(gameRooms, r) /\ p \in PlayerIds(RoomOf(gameRooms, r)))
            <=> playerRooms[p] = r


\* The ids of the rooms created so far.
CreatedRoomIds == {RoomIdOf(i) : i \in 1..nextRoomId}

\* The step handles the leave-game or the disconnect of the only player in
\* the player map of the registered room r.
LastPlayerLeaves(r) ==
    /\ HasId(gameRooms, r)
    /\ lastEvent'[1] \in {"leave-game", "disconnect"}
    /\ PlayerIds(RoomOf(gameRooms, r)) = {lastEvent'[2]}

\* A room id that was registered and is no longer stays unregistered.
DeletedStaysDeleted ==
    \A r \in CreatedRoomIds : ~HasId(gameRooms, r) => ~HasId(gameRooms', r)

\* A join-game that names an id registered no longer puts the player, if
\* anywhere, into a registered room with another id.
JoinOfDeletedFallsBack ==
    \A p \in SocketIds : \A r \in CreatedRoomIds :
        ~HasId(gameRooms, r) /\ handleJoinGame(p, r)
            => \/ emitted' = << Ev(p, "error", "Room is full") >> /\ playerRooms' = playerRooms
               \/ /\ playerRooms'[p] \notin {r, NULL}
                  /\ HasId(gameRooms', playerRooms'[p])
                  /\ p \in PlayerIds(RoomOf(gameRooms', playerRooms'[p]))

\* C14: once the leave of the last player of a room is handled the room is
\* no longer registered; its id is never registered again; a join-game that
\* names it falls back to an available or a new room.
C14_DeletedRoomIsGone ==
    [][/\ \A r \in AllRoomIds : LastPlayerLeaves(r) => ~HasId(gameRooms', r)
       /\ DeletedStaysDeleted
       /\ JoinOfDeletedFallsBack]_vars


\* C15: the step that handles leaveGame or disconnect for a player of a
\* session takes the player out of the session's player map and out of
\* playerSessions, and leaves no session with an empty player map behind.
C15_LeaveCleansUp ==
    [][\A sk \in SocketNames :
          /\ lastSocketEvent'[1] \in {"leaveGame", "disconnect"}
          /\ lastSocketEvent'[2] = sk
          /\ PlayerAt(sk) # <<0, 0>>
          => LET userId == connectedUsers[sk]
                 sessionId == activeSessions[PlayerAt(sk)[1]].id
             IN /\ playerSessions'[userId] = NULL
                /\ \A i \in DOMAIN activeSessions' :
                       activeSessions'[i].id = sessionId
                           => /\ userId \notin SessionPlayerIds(activeSessions'[i])
                              /\ activeSessions'[i].players # <<>>]_vars


\* No room holds more players than its maxPlayers.
WithinCapacity ==
    \A i \in DOMAIN gameRooms : Len(gameRooms[i].players) <= gameRooms[i].maxPlayers

\* The registered room that a join-game naming roomId resolves to, NULL when
\* a room has to be created.
ResolvedRoom(roomId) ==
    IF roomId # NULL /\ HasId(gameRooms, roomId) THEN roomId
    ELSE findAvailableRoom(gameRooms)

C17_JoinsRespectMaxPlayers ==
    \A i \in DOMAIN activeSessions :
        Len(activeSessions[i].players) <= activeSessions[i].settings.maxPlayers


\* The events of a client that the handlers accept from authenticated
\* sockets only.
GameEvents ==
    {"createGame", "joinGame", "quickPlay", "move", "updateFacing", "useAbility", "leaveGame"}

\* C18: a game event from a socket that connectedUsers does not hold changes
\* no session (players included), no playerSessions entry and starts no join.
C18_UnauthenticatedChangesNothing ==
    [][lastSocketEvent'[1] \in GameEvents /\ connectedUsers[lastSocketEvent'[2]] = NULL
          => /\ activeSessions' = activeSessions
             /\ playerSessions' = playerSessions
             /\ pendingJoins' = pendingJoins
             /\ connectedUsers' = connectedUsers]_vars

\* A createGame has just been turned down for a socket that is not
\* authenticated (any more), while a session can still be created and the
\* socket's user had joined a session before.
C18_Witness ==
    \E sk \in SocketNames :
        /\ lastSocketEvent = <<"createGame", sk>>
        /\ connectedUsers[sk] = NULL
        /\ sent = << Ev(sk, "error", "Not authenticated") >>
        /\ playerSessions[UserIdOf(sk)] # NULL
        /\ activeSessions # <<>>


(***************************************************************************)
(* MazeGenerator of the room engine, call by call: generate() on its own,  *)
(* every shuffle drawn afresh.  A frame of the call stack holds the cell   *)
(* of a recursiveBacktrack call and the shuffled directions its loop has   *)
(* still to visit.                                                         *)
(***************************************************************************)
MaxCarvedWidth == 7
MaxCarvedHeight == 7
MaxCarvedCells == 25

OddSizes(max) == {n \in 3..max : n % 2 = 1}

\* Math.floor(Math.random() * (i + 1)) for i = 3, 2, 1: every outcome.
AllShuffleDraws == {<<a, b, c>> : a \in 0..3, b \in 0..2, c \in 0..1}

Frame(x, y) == [x |-> x, y |-> y, entered |-> FALSE, todo |-> <<>>]

TopFrame == carving.stack[Len(carving.stack)]

\* new MazeGenerator(width, height).generate() up to the call of
\* recursiveBacktrack(1, 1)
MazeInit ==
    /\ \E width \in OddSizes(MaxCarvedWidth), height \in OddSizes(MaxCarvedHeight) :
           /\ width * height <= MaxCarvedCells
           /\ carving = [width |-> width, height |-> height,
                         maze |-> AllWalls(width, height),
                         stack |-> << Frame(1, 1) >>,
                         returned |-> FALSE]
    /\ RoomIdle
    /\ SessionIdle
    /\ GenerateIdle
    /\ LoopIdle

\* recursiveBacktrack(x, y) up to its loop: the cell is marked as path and
\* the directions are shuffled.
RecursiveBacktrackEnter ==
    /\ carving.stack # <<>>
    /\ ~TopFrame.entered
    /\ \E draws \in AllShuffleDraws :
           carving' = [carving EXCEPT
                          !.maze[TopFrame.y][TopFrame.x] = 1,
                          !.stack[Len(carving.stack)] =
                              [TopFrame EXCEPT !.entered = TRUE,
                                               !.todo = shuffle(Directions, draws)]]
    /\ UNCHANGED <<roomVars, sessionVars, generating, carveLoop>>

\* A loop that calls recursiveBacktrack(nx, ny) without removing the wall
\* between the two cells.
RecursiveBacktrackLoop_NoPassage ==
    /\ carving.stack # <<>>
    /\ TopFrame.entered
    /\ TopFrame.todo # <<>>
    /\ LET nx == TopFrame.x + Head(TopFrame.todo)[1]
           ny == TopFrame.y + Head(TopFrame.todo)[2]
           rest == [TopFrame EXCEPT !.todo = Tail(@)]
       IN IF isValid(nx, ny, carving.width, carving.height) /\ carving.maze[ny][nx] = 0
          THEN carving' = [carving EXCEPT
                   !.stack = Append([@ EXCEPT ![Len(@)] = rest], Frame(nx, ny))]
          ELSE carving' = [carving EXCEPT !.stack[Len(carving.stack)] = rest]
    /\ UNCHANGED <<roomVars, sessionVars, generating, carveLoop>>

\* One pass of the loop over the shuffled directions: a neighbour two cells
\* away that is inside the border and still a wall is connected and visited.
RecursiveBacktrackLoop ==
    /\ carving.stack # <<>>
    /\ TopFrame.entered
    /\ TopFrame.todo # <<>>
    /\ LET dx == Head(TopFrame.todo)[1]
           dy == Head(TopFrame.todo)[2]
           nx == TopFrame.x + dx
           ny == TopFrame.y + dy
           rest == [TopFrame EXCEPT !.todo = Tail(@)]
       IN IF isValid(nx, ny, carving.width, carving.height) /\ carving.maze[ny][nx] = 0
          THEN carving' = [carving EXCEPT
                   !.maze[TopFrame.y + dy \div 2][TopFrame.x + dx \div 2] = 1,
                   !.stack = Append([@ EXCEPT ![Len(@)] = rest], Frame(nx, ny))]
          ELSE carving' = [carving EXCEPT !.stack[Len(carving.stack)] = rest]
    /\ UNCHANGED <<roomVars, sessionVars, generating, carveLoop>>

\* The loop is over: recursiveBacktrack returns; generate() returns the maze
\* when the call for (1, 1) does.
RecursiveBacktrackReturn ==
    /\ carving.stack # <<>>
    /\ TopFrame.entered
    /\ TopFrame.todo = <<>>
    /\ carving' = [carving EXCEPT
                      !.stack = SubSeq(@, 1, Len(@) - 1),
                      !.returned = (Len(carving.stack) = 1)]
    /\ UNCHANGED <<roomVars, sessionVars, generating, carveLoop>>

MazeNext ==
    \/ RecursiveBacktrackEnter
    \/ RecursiveBacktrackLoop
    \/ RecursiveBacktrackReturn

MazeSpec == MazeInit /\ [][MazeNext]_vars


\* The EMPTY cells reachable from the cells of `seen` by steps between
\* orthogonally adjacent EMPTY cells.
RECURSIVE Flood(_, _, _, _)
Flood(maze, width, height, seen) ==
    LET next == {c \in (0..(width - 1)) \X (0..(height - 1)) :
                    /\ maze[c[2]][c[1]] = 1
                    /\ \E s \in seen : \/ (c[1] = s[1] /\ (c[2] = s[2] + 1 \/ c[2] = s[2] - 1))
                                       \/ (c[2] = s[2] /\ (c[1] = s[1] + 1 \/ c[1] = s[1] - 1))}
    IN IF next \subseteq seen THEN seen
       ELSE Flood(maze, width, height, seen \cup next)

\* C19: the maze generate() returns for odd width and height has the start
\* cell (1,1) and the end cell (width-2, height-2) both EMPTY, and the end is
\* reached from the start over orthogonally adjacent EMPTY cells, whatever
\* the shuffles drew.
C19_StartReachesEnd ==
    carving.returned =>
        /\ carving.maze[1][1] = 1
        /\ carving.maze[carving.height - 2][carving.width - 2] = 1
        /\ <<carving.width - 2, carving.height - 2>> \in
               Flood(carving.maze, carving.width, carving.height, {<<1, 1>>})

\* A returned 5x5 maze whose start is walled off to the east: the path to
\* the end goes down the left column and along the bottom row.
C19_Witness ==
    /\ carving.returned
    /\ carving.width = 5
    /\ carving.height = 5
    /\ carving.maze[1][2] = 0
    /\ carving.maze[3][3] = 1


\* C20: every player-move that changes a player's position in a room is
\* followed, no later than the next tick, by a player-update to that room
\* carrying the positions the room then holds: a tick emits the snapshot of
\* every registered room in which a position has changed since the last tick.
C20_MovesArePushed ==
    [][lastEvent'[1] = "tick" =>
          \A r \in movedRooms :
              HasId(gameRooms, r) =>
                  \E i \in DOMAIN emitted' :
                      emitted'[i] = Ev(r, "player-update", RoomOf(gameRooms, r).players)]_vars

(***************************************************************************)
(* MazeGenerator.generate of the session engine on its own: NumRuns calls  *)
(* with the same size and difficulty, each receiving the same sequence of  *)
(* random draws, advance independently through the four parts of generate. *)
(***************************************************************************)
NumRuns == 2
GenerateMinSize == 5
GenerateMaxSize == 7
MaxDifficulty == 3

\* The sequences of Math.random() values explored.
GenerateStreams ==
    RandomStreams \cup {<<a, b>> : a, b \in {0, 2, 5, 7}}

WallGrid(size) == [y \in 0..(size - 1) |-> [x \in 0..(size - 1) |-> TileWall]]

GenerateInit ==
    /\ \E size \in GenerateMinSize..GenerateMaxSize, difficulty \in 1..MaxDifficulty,
          stream \in GenerateStreams :
           generating = [size |-> size, difficulty |-> difficulty, stream |-> stream,
                         runs |-> [r \in 1..NumRuns |->
                                      [phase |-> "called", maze |-> <<>>, n |-> 0]]]
    /\ RoomIdle
    /\ SessionIdle
    /\ CarvingIdle
    /\ LoopIdle

Run(r) == generating.runs[r]

\* The outcome of a part of generate becomes the state of run r.
RunBecomes(r, phase, outcome) ==
    /\ generating' = [generating EXCEPT
                         !.runs[r] = [phase |-> phase, maze |-> outcome.maze,
                                      n |-> outcome.n]]
    /\ UNCHANGED <<roomVars, sessionVars, carving, carveLoop>>

\* A carving whose draws are not the ones the call was given.
GenerateCarve_OtherDraws(r) ==
    /\ Run(r).phase = "called"
    /\ \E stream \in GenerateStreams :
           RunBecomes(r, "carved",
                      carve([WallGrid(generating.size) EXCEPT ![1][1] = TileFloor],
                            {<<1, 1>>}, <<>>, 1, 1, generating.size, stream, 0))

\* generate, lines 4-63: the grid of walls and the carving loop.
GenerateCarve(r) ==
    /\ Run(r).phase = "called"
    /\ RunBecomes(r, "carved",
                  carve([WallGrid(generating.size) EXCEPT ![1][1] = TileFloor],
                        {<<1, 1>>}, <<>>, 1, 1, generating.size,
                        generating.stream, 0))

\* generate, line 66
GenerateCheckpoints(r) ==
    /\ Run(r).phase = "carved"
    /\ RunBecomes(r, "checkpoints",
                  addCheckpoints(Run(r).maze, generating.size,
                                 Max(2, generating.size \div 10),
                                 generating.stream, Run(r).n))

\* generate, line 69
GenerateFinish(r) ==
    /\ Run(r).phase = "checkpoints"
    /\ RunBecomes(r, "finish",
                  addFinish(Run(r).maze, generating.size, generating.stream,
                            Run(r).n, 0))

\* generate, lines 72-74
GenerateObstacles(r) ==
    /\ Run(r).phase = "finish"
    /\ RunBecomes(r, "returned",
                  addObstacles(Run(r).maze, generating.size, generating.difficulty,
                               generating.stream, Run(r).n))

GenerateNext ==
    \/ \E r \in 1..NumRuns : GenerateCarve(r)
    \/ \E r \in 1..NumRuns : GenerateCheckpoints(r)
    \/ \E r \in 1..NumRuns : GenerateFinish(r)
    \/ \E r \in 1..NumRuns : GenerateObstacles(r)

GenerateSpec == GenerateInit /\ [][GenerateNext]_vars

TilesOf(maze, tile) ==
    {<<x, y>> \in (DOMAIN maze) \X (DOMAIN maze) : maze[y][x] = tile}

OpenCell(session, x, y) ==
    /\ x % Half = 0
    /\ y % Half = 0
    /\ x \div Half \in 0..(session.mazeSize - 1)
    /\ y \div Half \in 0..(session.mazeSize - 1)
    /\ session.maze[y \div Half][x \div Half] # TileWall

\* The number of steps of one tile from position in direction (sx, sy), at
\* most TeleportRange, that stay on open cells.
OpenSteps(session, position, sx, sy) ==
    LET Clear(k) == \A j \in 1..k :
                        OpenCell(session, position.x + j * sx * Half,
                                          position.y + j * sy * Half)
    IN CHOOSE k \in 0..TeleportRange :
           Clear(k) /\ (k = TeleportRange \/ ~Clear(k + 1))

\* A useAbility of Teleport that the handler accepts.
TeleportAccepted(sk, time) ==
    /\ PlayerAt(sk) # <<0, 0>>
    /\ LET player == activeSessions[PlayerAt(sk)[1]].players[PlayerAt(sk)[2]]
       IN /\ player.status = "alive"
          /\ HasId(player.abilities, Teleport.id)
          /\ time >= CooldownEnd(player, Teleport.id)

\* C22: an accepted Teleport moves the player k steps, 0 <= k <= 3, in the
\* direction (sign(target.x - x), sign(target.y - y)); every cell stepped on
\* is an in-bounds cell that is not WALL and k stops before the first cell
\* that is WALL or out of bounds, so a blocked first step leaves the position
\* as it was.
C22_TeleportStopsAtWalls ==
    [][\A sk \in SocketNames, o \in TargetOffsets, time \in 0..MaxTime :
          useAbility(sk, Teleport.id, o[1], o[2], time) /\ TeleportAccepted(sk, time)
          => LET session == activeSessions[PlayerAt(sk)[1]]
                 player == session.players[PlayerAt(sk)[2]]
                 target == [x |-> player.position.x \div Half + o[1],
                            y |-> player.position.y \div Half + o[2]]
                 sx == Sign(target.x * Half - player.position.x)
                 sy == Sign(target.y * Half - player.position.y)
                 k == OpenSteps(session, player.position, sx, sy)
                 after == activeSessions'[PlayerAt(sk)[1]].players[PlayerAt(sk)[2]]
             IN after.position = [x |-> player.position.x + k * sx * Half,
                                  y |-> player.position.y + k * sy * Half]]_vars

\* The handling of a useAbility event of socket sk for ability a, in a step
\* that has just been taken: the player asked, before and after the step.
UsedBy(sk, a) ==
    /\ lastSocketEvent' = <<"useAbility", sk, a>>
    /\ PlayerAt(sk) # <<0, 0>>

\* The use was accepted: the handler went on to broadcast.
UseAccepted == sent' # <<>>

\* Every useAbility is accepted exactly when the player is alive, owns the
\* ability and the time is not before the cooldown recorded (0 when absent),
\* and an accepted use records the time plus the ability's cooldownMs.
CooldownBookkeeping ==
    \A sk \in SocketNames, a \in AbilityIds :
        UsedBy(sk, a) =>
            LET player == activeSessions[PlayerAt(sk)[1]].players[PlayerAt(sk)[2]]
                after == activeSessions'[PlayerAt(sk)[1]].players[PlayerAt(sk)[2]]
                owned == HasId(player.abilities, a)
                allowed == /\ player.status = "alive"
                           /\ owned
                           /\ now' >= CooldownEnd(player, a)
            IN /\ UseAccepted <=> allowed
               /\ UseAccepted =>
                      CooldownEnd(after, a) =
                          now' + player.abilities[IndexOfId(player.abilities, a)].cooldownMs
               /\ ~UseAccepted => activeSessions' = activeSessions
               /\ (player.status = "alive" /\ owned
                       /\ ~HasId(player.activeCooldowns, a)) => UseAccepted

\* The time recorded for an ability of a player of a session does not go down.
CooldownsNeverDecrease ==
    \A i \in DOMAIN activeSessions : \A id \in SessionPlayerIds(activeSessions[i]) :
        id \in SessionPlayerIds(activeSessions'[i]) =>
            \A a \in AbilityIds :
                CooldownEnd(PlayerOf(activeSessions'[i], id), a)
                    >= CooldownEnd(PlayerOf(activeSessions[i], id), a)

\* C23: the first use of an owned ability is accepted; an accepted use at time
\* now sets activeCooldowns[abilityId] to exactly now + cooldownMs, also for
\* an ability without effect; a use is accepted if and only if the player is
\* alive, owns the ability and now >= activeCooldowns[abilityId] (0 when
\* absent); and the value recorded for an ability never decreases.
C23_CooldownBookkeeping ==
    [][CooldownBookkeeping /\ CooldownsNeverDecrease]_vars

\* The tile (floor of the coordinates, in 1/Half tiles) is a wall of the
\* session's maze or lies outside it.
WallOrOutside(session, x, y) ==
    LET cellX == x \div Half
        cellY == y \div Half
    IN \/ cellX \notin 0..(session.mazeSize - 1)
       \/ cellY \notin 0..(session.mazeSize - 1)
       \/ session.maze[cellY][cellX] = TileWall

\* C24: a rejected move is an atomic no-op: a move whose target cell is a
\* wall or outside the maze changes no field of any player, no session state,
\* and is followed by no gameState broadcast (stated here for the session
\* engine, whose players, maze and status all live in activeSessions).
C24_RejectedMoveIsNoOp ==
    [][\A sk \in SocketNames, d \in MoveDeltas :
          /\ move(sk, d[1], d[2])
          /\ PlayerAt(sk) # <<0, 0>>
          /\ LET session == activeSessions[PlayerAt(sk)[1]]
                 player == session.players[PlayerAt(sk)[2]]
             IN WallOrOutside(session, player.position.x + d[1], player.position.y + d[2])
          => activeSessions' = activeSessions /\ sent' = <<>>]_vars

\* C25: checkpoint credit is given at most once per checkpoint: no player's
\* checkpointsReached exceeds the number of checkpoint tiles in the maze of
\* its session, whatever moves have been applied.
C25_CheckpointCreditOnce ==
    \A i \in DOMAIN activeSessions : \A j \in DOMAIN activeSessions[i].players :
        activeSessions[i].players[j].checkpointsReached
            <= Cardinality(TilesOf(activeSessions[i].maze, TileCheckpoint))

\* What a move may change of the players of a session.
MovedFields(session) ==
    [j \in DOMAIN session.players |->
        <<session.players[j].id, session.players[j].position,
          session.players[j].lives, session.players[j].status,
          session.players[j].checkpointsReached>>]

\* C26: a move is applied only while the session is in progress: a move event
\* handled while the session's status is 'waiting' or 'completed' changes no
\* player's position, lives, status or checkpoint counter.
C26_MoveOnlyInProgress ==
    [][\A sk \in SocketNames :
          /\ lastSocketEvent' = <<"move", sk>>
          /\ PlayerAt(sk) # <<0, 0>>
          /\ activeSessions[PlayerAt(sk)[1]].status \in {WAITING, "completed"}
          => MovedFields(activeSessions'[PlayerAt(sk)[1]])
                 = MovedFields(activeSessions[PlayerAt(sk)[1]])]_vars

\* C27: a disconnect is safe at any point, also while a joinSession of the
\* same user is suspended at an await: once the user's disconnect has been
\* processed and every join of that user in flight has completed, the user
\* is in no session's player map and has no playerSessions entry.
C27_DisconnectIsClean ==
    \A sk \in SocketNames :
        connectedUsers[sk] = NULL /\ InFlight(sk) = 0
        => /\ playerSessions[UserIdOf(sk)] = NULL
           /\ \A i \in DOMAIN activeSessions :
                  UserIdOf(sk) \notin SessionPlayerIds(activeSessions[i])

\* The step handles a leave-game or a disconnect of player p.
Leaves(p) == lastEvent' \in {<<"leave-game", p>>, <<"disconnect", p>>}

\* The step changes no room (player maps and ready sets included), leaves the
\* directory as it is and emits nothing.
RoomsUntouched ==
    gameRooms' = gameRooms /\ playerRooms' = playerRooms /\ emitted' = <<>>

\* C28: leave is idempotent and disconnect equals leave: a leave-game or a
\* disconnect of a player without playerRooms entry changes nothing; a
\* disconnect does to rooms and directory what leave-game does; and a
\* disconnect that follows the leave-game of the same player leaves the
\* state the single leave produced.
C28_LeaveIsIdempotent ==
    [][\A p \in SocketIds :
          /\ Leaves(p) /\ playerRooms[p] = NULL => RoomsUntouched
          /\ lastEvent' = <<"disconnect", p>> => handleLeaveGame(p)
          /\ lastEvent = <<"leave-game", p>> /\ Leaves(p) => RoomsUntouched]_vars

\* In the deployment with a single room: a disconnect of a player without
\* directory entry has just been handled while the room, with the other
\* player in it, is still registered.
C28_Witness ==
    \E p \in SocketIds :
        /\ lastEvent = <<"disconnect", p>>
        /\ playerRooms[p] = NULL
        /\ roomCap = 1
        /\ emitted = <<>>
        /\ \E i \in DOMAIN gameRooms :
               PlayerIds(gameRooms[i]) # {} /\ p \notin PlayerIds(gameRooms[i])

\* The step is a join-game of p that put p into the WAITING room roomId.
JoinedWaiting(p, roomId) ==
    /\ lastEvent' = <<"join-game", p>>
    /\ emitted' # <<>>
    /\ emitted'[1] = Ev(p, "game-joined", roomId)
    /\ RoomOf(gameRooms', roomId).gameState = WAITING

ReadyWithinPlayers ==
    \A i \in DOMAIN gameRooms : gameRooms[i].readyPlayers \subseteq PlayerIds(gameRooms[i])

\* A leave that removed p from a room that stays registered removed p's
\* readiness too.
LeaveRemovesReadiness ==
    \A p \in SocketIds :
        Leaves(p) /\ playerRooms[p] # NULL /\ HasId(gameRooms', playerRooms[p])
            => p \notin RoomOf(gameRooms', playerRooms[p]).readyPlayers

\* A player who has just joined a WAITING room is not ready and the room
\* cannot start.
JoinerIsNotReady ==
    \A p \in SocketIds : \A i \in DOMAIN gameRooms' :
        JoinedWaiting(p, gameRooms'[i].id)
            => /\ p \notin gameRooms'[i].readyPlayers
               /\ ~canStartGame(gameRooms'[i])

\* Only the player's own player-ready makes it ready.
ReadyOnlyBySignal ==
    \A p \in SocketIds : \A i \in DOMAIN gameRooms' :
        /\ p \in gameRooms'[i].readyPlayers
        /\ lastEvent' # <<"player-ready", p>>
        => /\ HasId(gameRooms, gameRooms'[i].id)
           /\ p \in RoomOf(gameRooms, gameRooms'[i].id).readyPlayers

\* C29: a room's ready set is a subset of the ids of its player map; removing
\* a player removes its readiness; a player who joins a WAITING room is not
\* ready until it signals, so canStartGame() is false after the join.
C29_ReadyWithinPlayers ==
    /\ []ReadyWithinPlayers
    /\ [][LeaveRemovesReadiness /\ JoinerIsNotReady /\ ReadyOnlyBySignal]_vars

\* The player-update snapshots in a sequence of emitted events.
Snapshots(events) ==
    {events[k] : k \in {j \in DOMAIN events : events[j].name = "player-update"}}

\* On a tick a snapshot goes to a room exactly when the room is IN_PROGRESS,
\* and it holds the ids of the room's player map.
SnapshotPerRunningRoom ==
    lastEvent' = <<"tick", NULL>> =>
        /\ \A e \in Snapshots(emitted') : HasId(gameRooms, e.to)
        /\ \A i \in DOMAIN gameRooms :
               LET snaps == {e \in Snapshots(emitted') : e.to = gameRooms[i].id}
               IN /\ (snaps # {}) = (gameRooms[i].gameState = IN_PROGRESS)
                  /\ \A e \in snaps : PlayerIds([players |-> e.data]) = PlayerIds(gameRooms[i])

\* A player whose leave has been processed, and who has not joined since, has
\* no playerRooms entry; such a player is in no snapshot.
LeaversNotInSnapshots ==
    lastEvent' = <<"tick", NULL>> =>
        \A e \in Snapshots(emitted') : \A p \in SocketIds :
            playerRooms[p] = NULL => p \notin PlayerIds([players |-> e.data])

\* C30: on every tick a player-update snapshot is emitted for a room if and
\* only if the room is IN_PROGRESS, the snapshot's ids are the ids of the
\* room's player map at that tick, and a player whose leave has been
\* processed appears in no later snapshot.
C30_SnapshotsFollowPlayerMap ==
    [][SnapshotPerRunningRoom /\ LeaversNotInSnapshots]_vars

\* The rooms findAvailableRoom may return: WAITING and not full.
JoinableRooms ==
    {i \in DOMAIN gameRooms :
        /\ gameRooms[i].gameState = WAITING
        /\ Len(gameRooms[i].players) < gameRooms[i].maxPlayers}

FindsOnlyJoinableRooms ==
    LET found == findAvailableRoom(gameRooms)
    IN IF JoinableRooms = {}
       THEN found = NULL
       ELSE \E i \in JoinableRooms : gameRooms[i].id = found

\* A join-game without room id puts the player into a WAITING room.
JoinWithoutIdLandsInWaiting ==
    \A p \in SocketIds :
        handleJoinGame(p, NULL) =>
            /\ emitted'[1].name = "game-joined"
            /\ playerRooms'[p] # NULL
            /\ HasId(gameRooms', playerRooms'[p])
            /\ RoomOf(gameRooms', playerRooms'[p]).gameState = WAITING
            /\ p \in PlayerIds(RoomOf(gameRooms', playerRooms'[p]))

\* C31: findAvailableRoom returns a room only if it is WAITING and not full
\* and null when no such room is registered; a join-game without room id
\* places the player in a WAITING room.
C31_JoinsOnlyWaitingRooms ==
    /\ []FindsOnlyJoinableRooms
    /\ [][JoinWithoutIdLandsInWaiting]_vars

\* A player has just been placed in a fresh WAITING room while a started
\* room with a free place is registered.
C31_Witness ==
    \E p \in SocketIds :
        /\ lastEvent = <<"join-game", p>>
        /\ emitted # <<>>
        /\ emitted[1].name = "game-joined"
        /\ playerRooms[p] # NULL
        /\ HasId(gameRooms, playerRooms[p])
        /\ RoomOf(gameRooms, playerRooms[p]).gameState = WAITING
        /\ \E i \in DOMAIN gameRooms :
               /\ gameRooms[i].gameState = IN_PROGRESS
               /\ Len(gameRooms[i].players) < gameRooms[i].maxPlayers
               /\ p \notin PlayerIds(gameRooms[i])

(***************************************************************************)
(* Both maze generators side by side: a behaviour is a generate() of the   *)
(* room engine's MazeGenerator, call by call, or NumRuns runs of the       *)
(* session engine's MazeGenerator.generate.                                *)
(***************************************************************************)
GeneratorsInit == MazeInit \/ GenerateInit

GeneratorsNext ==
    \/ RecursiveBacktrackEnter
    \/ RecursiveBacktrackLoop
    \/ RecursiveBacktrackReturn
    \/ \E r \in 1..NumRuns : ~GenerateIdle /\ GenerateCarve(r)
    \/ \E r \in 1..NumRuns : ~GenerateIdle /\ GenerateCheckpoints(r)
    \/ \E r \in 1..NumRuns : ~GenerateIdle /\ GenerateFinish(r)
    \/ \E r \in 1..NumRuns : ~GenerateIdle /\ GenerateObstacles(r)

GeneratorsSpec == GeneratorsInit /\ [][GeneratorsNext]_vars

\* The cells of the outer border of a width x height grid.
Border(width, height) ==
    {c \in (0..(width - 1)) \X (0..(height - 1)) :
        c[1] = 0 \/ c[1] = width - 1 \/ c[2] = 0 \/ c[2] = height - 1}

\* C32: in both generators every cell of the outer border of a grid of odd
\* size is a wall, during generation and in the grid returned: carving,
\* checkpoint, finish and obstacle placement never write to a border cell.
C32_BorderIsWall ==
    /\ ~CarvingIdle =>
           \A c \in Border(carving.width, carving.height) :
               carving.maze[c[2]][c[1]] = 0
    /\ ~GenerateIdle /\ generating.size % 2 = 1 =>
           \A r \in 1..NumRuns :
               Run(r).phase # "called" =>
                   \A c \in Border(generating.size, generating.size) :
                       Run(r).maze[c[2]][c[1]] = TileWall

\* A 5x5 session grid has been returned whose first finish draw pointed at
\* the border cell (4,4), with a finish placed elsewhere.
C32_Witness ==
    /\ ~GenerateIdle
    /\ generating.size = 5
    /\ generating.stream = <<7>>
    /\ \A r \in 1..NumRuns : Run(r).phase = "returned"
    /\ TilesOf(Run(1).maze, TileFinish) # {}

(***************************************************************************)
(* The carving loop of the session engine's MazeGenerator.generate,        *)
(* iteration by iteration, Math.random() choosing any of the unvisited     *)
(* neighbours.                                                             *)
(***************************************************************************)
MaxLoopSize == 9

\* generate, lines 4-14: the grid of walls, visited, the empty stack and the
\* current cell (1,1)
LoopInit ==
    /\ \E size \in OddSizes(MaxLoopSize) :
           carveLoop = [size |-> size,
                        maze |-> [WallGrid(size) EXCEPT ![1][1] = TileFloor],
                        visited |-> {<<1, 1>>},
                        stack |-> <<>>,
                        currentX |-> 1, currentY |-> 1,
                        done |-> FALSE]
    /\ RoomIdle
    /\ SessionIdle
    /\ CarvingIdle
    /\ GenerateIdle

\* generate, lines 24-37: the unvisited neighbours of the current cell
LoopNeighbors ==
    LET all == [i \in 1..4 |->
                   [x |-> carveLoop.currentX + SessionDirections[i].dx,
                    y |-> carveLoop.currentY + SessionDirections[i].dy,
                    wallX |-> carveLoop.currentX + SessionDirections[i].dx \div 2,
                    wallY |-> carveLoop.currentY + SessionDirections[i].dy \div 2]]
        Unvisited(nb) ==
            /\ nb.x >= 1 /\ nb.x < carveLoop.size - 1
            /\ nb.y >= 1 /\ nb.y < carveLoop.size - 1
            /\ <<nb.x, nb.y>> \notin carveLoop.visited
    IN SelectSeq(all, Unvisited)

\* A backtrack that returns to the bottom of the stack and drops the rest.
LoopBacktrack_ToBottom ==
    /\ ~carveLoop.done
    /\ Len(LoopNeighbors) = 0
    /\ Len(carveLoop.stack) > 0
    /\ carveLoop' = [carveLoop EXCEPT
                        !.stack = <<>>,
                        !.currentX = carveLoop.stack[1].x,
                        !.currentY = carveLoop.stack[1].y]
    /\ UNCHANGED <<roomVars, sessionVars, carving, generating>>

\* generate, lines 39-54: a neighbour is chosen, the wall towards it and the
\* neighbour become floor, the current cell is pushed.
LoopCarve ==
    /\ ~carveLoop.done
    /\ Len(LoopNeighbors) > 0
    /\ \E k \in 1..Len(LoopNeighbors) :
           LET next == LoopNeighbors[k]
           IN carveLoop' = [carveLoop EXCEPT
                  !.maze = [@ EXCEPT ![next.wallY][next.wallX] = TileFloor,
                                     ![next.y][next.x] = TileFloor],
                  !.visited = @ \cup {<<next.x, next.y>>},
                  !.stack = Append(@, [x |-> carveLoop.currentX,
                                       y |-> carveLoop.currentY]),
                  !.currentX = next.x,
                  !.currentY = next.y]
    /\ UNCHANGED <<roomVars, sessionVars, carving, generating>>

\* generate, lines 55-59: backtrack
LoopBacktrack ==
    /\ ~carveLoop.done
    /\ Len(LoopNeighbors) = 0
    /\ Len(carveLoop.stack) > 0
    /\ carveLoop' = [carveLoop EXCEPT
                        !.stack = SubSeq(@, 1, Len(@) - 1),
                        !.currentX = carveLoop.stack[Len(carveLoop.stack)].x,
                        !.currentY = carveLoop.stack[Len(carveLoop.stack)].y]
    /\ UNCHANGED <<roomVars, sessionVars, carving, generating>>

\* generate, lines 60-62: break
LoopBreak ==
    /\ ~carveLoop.done
    /\ Len(LoopNeighbors) = 0
    /\ Len(carveLoop.stack) = 0
    /\ carveLoop' = [carveLoop EXCEPT !.done = TRUE]
    /\ UNCHANGED <<roomVars, sessionVars, carving, generating>>

LoopNext ==
    \/ LoopCarve
    \/ LoopBacktrack
    \/ LoopBreak

LoopSpec == LoopInit /\ [][LoopNext]_vars

\* The loop is a single thread that runs to its break.
LoopFairSpec == LoopSpec /\ WF_vars(LoopNext)

\* The cells with two odd coordinates inside the border.
OddCells(size) ==
    {c \in (1..(size - 2)) \X (1..(size - 2)) : c[1] % 2 = 1 /\ c[2] % 2 = 1}

\* The floor cells reachable from the cells of seen over adjacent floor cells.
RECURSIVE FloorFlood(_, _, _)
FloorFlood(maze, size, seen) ==
    LET Adjacent(c, s) == \/ (c[1] = s[1] /\ (c[2] = s[2] + 1 \/ c[2] = s[2] - 1))
                          \/ (c[2] = s[2] /\ (c[1] = s[1] + 1 \/ c[1] = s[1] - 1))
        Grown == seen \cup {c \in (0..(size - 1)) \X (0..(size - 1)) :
                               /\ maze[c[2]][c[1]] = TileFloor
                               /\ \E s \in seen : Adjacent(c, s)}
    IN UNION { IF grown = seen THEN seen ELSE FloorFlood(maze, size, grown) :
               grown \in {Grown} }

\* The loop has ended with a spanning tree of the odd cells.
LoopEndsWithSpanningTree ==
    carveLoop.done =>
        LET floor == TilesOf(carveLoop.maze, TileFloor)
        IN /\ carveLoop.stack = <<>>
           /\ carveLoop.visited = OddCells(carveLoop.size)
           /\ OddCells(carveLoop.size) \subseteq floor
           /\ Cardinality(floor \ OddCells(carveLoop.size))
                  = Cardinality(OddCells(carveLoop.size)) - 1
           /\ FloorFlood(carveLoop.maze, carveLoop.size, {<<1, 1>>}) = floor

\* A cell is visited once: a step of the loop carves into a cell that was
\* neither visited nor floor.
LoopVisitsOnce ==
    \A c \in carveLoop'.visited \ carveLoop.visited :
        carveLoop.maze[c[2]][c[1]] = TileWall

\* C33: for every odd size and every sequence of random choices the carving
\* loop terminates with an empty stack; then every cell with two odd
\* coordinates inside the border has been visited, each once, and the floor
\* cells form a spanning tree: connecting cells = odd cells - 1, and all
\* floor cells are mutually reachable.
C33_CarvingTerminatesWithTree ==
    /\ <>(~LoopIdle => carveLoop.done)
    /\ [](~LoopIdle => LoopEndsWithSpanningTree)
    /\ [][LoopVisitsOnce]_vars

\* The loop of a 7x7 grid has ended after backtracking out of a dead end:
\* the cell (5,3) has floor to the west, to the north and to the south.
C33_Witness ==
    /\ carveLoop.done
    /\ carveLoop.size = 7
    /\ carveLoop.maze[3][4] = TileFloor
    /\ carveLoop.maze[2][5] = TileFloor
    /\ carveLoop.maze[4][5] = TileFloor

\* C34: a generation request with an even size, or one below the minimum,
\* is rejected or rounded up: every grid a generator returns has odd
\* dimensions of at least the minimum.
C34_ReturnedGridsAreOdd ==
    \A r \in 1..NumRuns :
        Run(r).phase = "returned" =>
            /\ Cardinality(DOMAIN Run(r).maze) % 2 = 1
            /\ Cardinality(DOMAIN Run(r).maze) >= GenerateMinSize
            /\ \A y \in DOMAIN Run(r).maze : DOMAIN Run(r).maze[y] = DOMAIN Run(r).maze

\* The runs in which addCheckpoints has returned.
CheckpointsPlaced(r) == Run(r).phase \in {"checkpoints", "finish", "returned"}

\* The start cell holds no checkpoint, and the checkpoints lie on as many
\* cells as addCheckpoints was asked to place.
CheckpointsApartFromStart ==
    ~GenerateIdle =>
        \A r \in 1..NumRuns :
            CheckpointsPlaced(r) =>
                /\ Run(r).maze[1][1] # TileCheckpoint
                /\ Cardinality(TilesOf(Run(r).maze, TileCheckpoint))
                       = Max(2, generating.size \div 10)

\* addCheckpoints writes checkpoints on floor only, and addFinish and
\* addObstacles leave the checkpoints where they are.
CheckpointsOnFloor ==
    \A r \in 1..NumRuns :
        /\ Run(r).phase = "carved" /\ CheckpointsPlaced(r)' =>
               \A c \in TilesOf(Run(r).maze', TileCheckpoint) :
                   Run(r).maze[c[2]][c[1]] = TileFloor
        /\ CheckpointsPlaced(r) =>
               TilesOf(Run(r).maze', TileCheckpoint) = TilesOf(Run(r).maze, TileCheckpoint)

\* C35: no checkpoint is placed on a wall cell, on the start cell (1,1), on
\* the finish cell, or on a cell that already holds another checkpoint.
C35_CheckpointsOnFreeCells ==
    /\ []CheckpointsApartFromStart
    /\ [][CheckpointsOnFloor]_vars

(***************************************************************************)
(* The room engine in a deployment whose start gate asks for one player    *)
(* while a room takes two: MAX_PLAYERS_PER_GAME=2, MIN_PLAYERS_PER_GAME=1, *)
(* one room.  The tick loop is the only thing that runs by itself.         *)
(***************************************************************************)
RoomGateInit ==
    /\ env = [MAZE_WIDTH |-> "5", MAZE_HEIGHT |-> "3",
              MAX_PLAYERS_PER_GAME |-> "2", MIN_PLAYERS_PER_GAME |-> "1"]
    /\ roomCap = 1
    /\ gameRooms = <<>>
    /\ playerRooms = [p \in SocketIds |-> NULL]
    /\ nextRoomId = 0
    /\ emitted = <<>>
    /\ tickCount = 0
    /\ lastEvent = <<"", NULL>>
    /\ movedRooms = {}
    /\ SessionIdle
    /\ MazeIdle

RoomGateSpec == RoomGateInit /\ [][RoomNext]_vars

RoomGateFairSpec == RoomGateSpec /\ WF_vars(Tick /\ UNCHANGED movedRooms)

\* Room roomId is registered, WAITING, holds the minimum number of players
\* and all of them are ready.
ReadyToStart(roomId) ==
    /\ HasId(gameRooms, roomId)
    /\ RoomOf(gameRooms, roomId).gameState = WAITING
    /\ canStartGame(RoomOf(gameRooms, roomId))

\* C36: whenever a WAITING room holds at least the minimum number of players
\* and every player in it is ready, the room becomes IN_PROGRESS without any
\* further client event: with only the tick loop running, the room does not
\* stay WAITING and ready to start.
C36_ReadyRoomStarts ==
    \A roomId \in AllRoomIds :
        ReadyToStart(roomId) ~> ~ReadyToStart(roomId)

\* C37: no player is added to a room whose gameState is IN_PROGRESS or
\* FINISHED, a join-game that names the room's id included: the player set
\* of a started room can only shrink.
C37_StartedRoomsOnlyShrink ==
    [][\A i \in DOMAIN gameRooms :
          gameRooms[i].gameState # WAITING /\ HasId(gameRooms', gameRooms[i].id)
              => PlayerIds(RoomOf(gameRooms', gameRooms[i].id))
                     \subseteq PlayerIds(gameRooms[i])]_vars

\* The cells reachable from the cells of seen by moves of one cell that the
\* move handler accepts (the tile is not WALL) and that do not step on an
\* obstacle.
RECURSIVE SafeFlood(_, _, _)
SafeFlood(maze, size, seen) ==
    LET Adjacent(c, s) == \/ (c[1] = s[1] /\ (c[2] = s[2] + 1 \/ c[2] = s[2] - 1))
                          \/ (c[2] = s[2] /\ (c[1] = s[1] + 1 \/ c[1] = s[1] - 1))
        Grown == seen \cup {c \in (0..(size - 1)) \X (0..(size - 1)) :
                               /\ maze[c[2]][c[1]] \notin {TileWall, TileObstacle}
                               /\ \E s \in seen : Adjacent(c, s)}
    IN UNION { IF grown = seen THEN seen ELSE SafeFlood(maze, size, grown) :
               grown \in {Grown} }

\* The cell findSpawnPosition returns for a grid.
SpawnCell(maze, size) ==
    <<findSpawnPosition(maze, size).x \div Half, findSpawnPosition(maze, size).y \div Half>>

\* C38: in every generated maze with difficulty >= 1 the finish tile is
\* reachable from the spawn position by accepted single-cell moves that never
\* step on an obstacle tile.
C38_FinishReachablePastObstacles ==
    ~GenerateIdle /\ generating.size % 2 = 1 /\ generating.difficulty >= 1 =>
        \A r \in 1..NumRuns :
            Run(r).phase = "returned" =>
                TilesOf(Run(r).maze, TileFinish) \subseteq
                    SafeFlood(Run(r).maze, generating.size,
                              {SpawnCell(Run(r).maze, generating.size)})

====
